---- MODULE Spec2Model ----
(***************************************************************************)
(* Decision-Aware Search: the ranking engine (ranking-engine.js) and the   *)
(* Express search endpoints (server.js).                                   *)
(*                                                                         *)
(* Numbers are exact rationals [n, d] in lowest terms with d > 0; the JS   *)
(* value NaN is the pair with d = 0.  Strings are sequences of one-letter  *)
(* strings, so that toLowerCase, split and includes are computed.          *)
(* A JS object is a function whose DOMAIN is the set of its own keys: a    *)
(* missing property is a key outside the DOMAIN.                           *)
(***************************************************************************)
EXTENDS Integers, Sequences, FiniteSets, TLC

(* ------------------------------ bounds --------------------------------- *)

\* largest number of items the provider answers with (count = maxResults caps it at 5)
MaxLive == 2

\* number of requests the server handles at a time
MaxRequests == 2

\* number of searches the page has waiting for their answer at a time
MaxSearches == 2

\* largest number of words in the queries extractKeywords is called with,
\* beside the long ones
MaxWords == 2

\* longest reading time, in minutes, getReadingTimeScore is called with
MaxMinutes == 70

(* ------------------------- JS numbers (rationals) ---------------------- *)

Abs(x) == IF x < 0 THEN -x ELSE x

RECURSIVE GCD(_, _)
GCD(a, b) == IF b = 0 THEN a ELSE GCD(b, a % b)

NaN == [n |-> 0, d |-> 0]

IsNaN(a) == a.d = 0

\* the number n/d (d # 0) in lowest terms with a positive denominator
R(n, d) ==
    LET s == IF d < 0 THEN -1 ELSE 1
        g == GCD(Abs(n), Abs(d))
    IN  [n |-> (s * n) \div g, d |-> Abs(d) \div g]

Zero == R(0, 1)
One == R(1, 1)

\* a + b
Add(a, b) ==
    IF IsNaN(a) \/ IsNaN(b) THEN NaN
    ELSE LET g == GCD(a.d, b.d)
         IN  R(a.n * (b.d \div g) + b.n * (a.d \div g), (a.d \div g) * b.d)

Neg(a) == IF IsNaN(a) THEN NaN ELSE [n |-> -a.n, d |-> a.d]

\* a - b
Sub(a, b) == Add(a, Neg(b))

\* a * b
Mul(a, b) ==
    IF IsNaN(a) \/ IsNaN(b) THEN NaN
    ELSE LET g1 == GCD(Abs(a.n), b.d)
             g2 == GCD(Abs(b.n), a.d)
         IN  [n |-> (a.n \div g1) * (b.n \div g2), d |-> (a.d \div g2) * (b.d \div g1)]

\* a / b; the code never divides by zero (every divisor is guarded), 0/0 is NaN
Div(a, b) ==
    IF IsNaN(a) \/ IsNaN(b) \/ b.n = 0 THEN NaN
    ELSE Mul(a, R(b.d, b.n))

\* a < b, a <= b, a > b, a >= b: every comparison with NaN is false
Lt(a, b) == ~IsNaN(a) /\ ~IsNaN(b) /\ Sub(a, b).n < 0
Le(a, b) == ~IsNaN(a) /\ ~IsNaN(b) /\ Sub(a, b).n <= 0
Gt(a, b) == Lt(b, a)
Ge(a, b) == Le(b, a)

\* Math.max(a, b) and Math.min(a, b): NaN if either argument is NaN
MathMax(a, b) == IF IsNaN(a) \/ IsNaN(b) THEN NaN ELSE IF Lt(a, b) THEN b ELSE a
MathMin(a, b) == IF IsNaN(a) \/ IsNaN(b) THEN NaN ELSE IF Lt(b, a) THEN b ELSE a

\* Math.abs(a)
MathAbs(a) == IF IsNaN(a) THEN NaN ELSE [n |-> Abs(a.n), d |-> a.d]

\* Math.round(a): the integer nearest to a, halves rounded up
MathRound(a) == (2 * a.n + a.d) \div (2 * a.d)

\* x hundredths: the literal 0.25 is Pct(25)
Pct(x) == R(x, 100)

\* the number is a value of the interval [0, 1]
InUnit(a) == Le(Zero, a) /\ Le(a, One)

(* ------------------------------ JS strings ----------------------------- *)

\* String.prototype.toLowerCase, letter by letter
LowerChar(c) ==
    CASE c = "A" -> "a" [] c = "B" -> "b" [] c = "C" -> "c" [] c = "D" -> "d"
      [] c = "E" -> "e" [] c = "F" -> "f" [] c = "G" -> "g" [] c = "H" -> "h"
      [] c = "I" -> "i" [] c = "J" -> "j" [] c = "K" -> "k" [] c = "L" -> "l"
      [] c = "M" -> "m" [] c = "N" -> "n" [] c = "O" -> "o" [] c = "P" -> "p"
      [] c = "Q" -> "q" [] c = "R" -> "r" [] c = "S" -> "s" [] c = "T" -> "t"
      [] c = "U" -> "u" [] c = "V" -> "v" [] c = "W" -> "w" [] c = "X" -> "x"
      [] c = "Y" -> "y" [] c = "Z" -> "z"
      [] OTHER -> c

toLowerCase(s) == [i \in 1..Len(s) |-> LowerChar(s[i])]

\* the characters the regular expression \s matches
IsSpace(c) == c \in {" ", "\t"}

\* String.prototype.trim
RECURSIVE trimStart(_)
trimStart(s) == IF s # <<>> /\ IsSpace(Head(s)) THEN trimStart(Tail(s)) ELSE s

RECURSIVE trimEnd(_)
trimEnd(s) ==
    IF s # <<>> /\ IsSpace(s[Len(s)]) THEN trimEnd(SubSeq(s, 1, Len(s) - 1)) ELSE s

trim(s) == trimEnd(trimStart(s))

\* s.split(/\s+/): the pieces between maximal runs of whitespace; a leading or
\* trailing run leaves an empty piece, and "" splits into [""]
RECURSIVE SplitFrom(_, _, _)
SplitFrom(s, i, cur) ==
    IF i > Len(s) THEN <<cur>>
    ELSE IF IsSpace(s[i])
         THEN IF i > 1 /\ IsSpace(s[i - 1])
              THEN SplitFrom(s, i + 1, cur)
              ELSE <<cur>> \o SplitFrom(s, i + 1, <<>>)
         ELSE SplitFrom(s, i + 1, Append(cur, s[i]))

split(s) == SplitFrom(s, 1, <<>>)

\* s.includes(t): t occurs in s as a contiguous piece (the empty t always does)
includes(s, t) ==
    \E i \in 0..(Len(s) - Len(t)) : SubSeq(s, i + 1, i + Len(t)) = t

\* Array.prototype.slice(0, k)
slice(xs, k) == SubSeq(xs, 1, IF Len(xs) < k THEN Len(xs) ELSE k)

\* the elements of an array: xs.some(test) is \E x \in Elements(xs) : test(x), and
\* xs.filter(test) is SelectSeq(xs, test)
Elements(xs) == {xs[i] : i \in 1..Len(xs)}

(* ------------------------------ JS values ------------------------------ *)

\* null in a field that otherwise holds a number, and in one that holds a string
Null == [n |-> 1, d |-> 0]
NullStr == "null"

\* the truth value of a number or null: 0, NaN and null are falsy
Truthy(a) == a.d # 0 /\ a.n # 0

\* the object has its own property k
Has(o, k) == k \in DOMAIN o

\* o.k read as a number: a missing property is undefined, NaN in arithmetic
\* and false in every comparison
Prop(o, k) == IF Has(o, k) THEN o[k] ELSE NaN

\* o.k || dflt
PropOr(o, k, dflt) == IF Has(o, k) /\ Truthy(o[k]) THEN o[k] ELSE dflt

\* parseInt of a number: its integer part, NaN for NaN and null
parseIntNum(a) ==
    IF a.d = 0 THEN NaN
    ELSE R((IF a.n < 0 THEN -1 ELSE 1) * (Abs(a.n) \div a.d), 1)

(* --------------------------- ranking-engine.js ------------------------- *)

Profiles == {"student", "shopper", "researcher", "casual"}

MetricKeys ==
    {"simplicity", "relevance", "recency", "reviews", "depth", "price", "citations",
     "readingTime"}

profileWeights ==
    [student |->
        [simplicity |-> Pct(30), relevance |-> Pct(25), recency |-> Pct(15),
         reviews |-> Pct(15), depth |-> Pct(10), price |-> Pct(5),
         citations |-> Pct(0), readingTime |-> Pct(-5)],
     shopper |->
        [price |-> Pct(35), reviews |-> Pct(30), relevance |-> Pct(20),
         simplicity |-> Pct(10), recency |-> Pct(5), depth |-> Pct(0),
         citations |-> Pct(0), readingTime |-> Pct(0)],
     researcher |->
        [citations |-> Pct(35), depth |-> Pct(30), relevance |-> Pct(20),
         reviews |-> Pct(10), recency |-> Pct(5), simplicity |-> Pct(0),
         price |-> Pct(0), readingTime |-> Pct(0)],
     casual |->
        [relevance |-> Pct(35), recency |-> Pct(25), readingTime |-> Pct(-15),
         simplicity |-> Pct(20), reviews |-> Pct(10), price |-> Pct(5),
         depth |-> Pct(0), citations |-> Pct(0)]]

\* the same without the two cut-offs
getReadingTimeScoreLinear(readingTime) ==
    Sub(One, Div(Sub(readingTime, R(5, 1)), Sub(R(60, 1), R(5, 1))))

getReadingTimeScore(readingTime) ==
    LET maxTime == R(60, 1)
        minTime == R(5, 1)
    IN  IF Le(readingTime, minTime) THEN One
        ELSE IF Ge(readingTime, maxTime) THEN Zero
        ELSE Sub(One, Div(Sub(readingTime, minTime), Sub(maxTime, minTime)))

\* the same keeping the words of three letters
extractKeywordsLength3(query) ==
    slice(SelectSeq(split(toLowerCase(query)), LAMBDA word : Len(word) > 2), 5)

\* the same keeping every word that passes the length filter
extractKeywordsUnsliced(query) ==
    SelectSeq(split(toLowerCase(query)), LAMBDA word : Len(word) > 3)

extractKeywords(query) ==
    slice(SelectSeq(split(toLowerCase(query)), LAMBDA word : Len(word) > 3), 5)

\* tag.toLowerCase().includes(keyword) || keyword.includes(tag.toLowerCase())
LabelMatches(label, keyword) ==
    \/ includes(toLowerCase(label), keyword)
    \/ includes(keyword, toLowerCase(label))

\* result.category is present and truthy (a non-empty string)
HasCategory(result) == Has(result, "category") /\ result.category # <<>>

categoryMatchOf(result, queryKeywords) ==
    \E keyword \in Elements(queryKeywords) : LabelMatches(result.category, keyword)

matchingTagsOf(result, queryKeywords) ==
    SelectSeq(result.tags,
              LAMBDA tag : \E keyword \in Elements(queryKeywords) : LabelMatches(tag, keyword))

\* the same dividing by the three weights whether their factors are active or not
computeRelevanceScoreAllWeights(result, queryKeywords) ==
    MathMax(Zero,
            MathMin(One,
                    Add(Add(Mul(PropOr(result, "relevance", Zero), Pct(60)),
                            IF /\ HasCategory(result)
                               /\ Len(queryKeywords) > 0
                               /\ categoryMatchOf(result, queryKeywords)
                            THEN Pct(25) ELSE Zero),
                        IF Has(result, "tags") /\ Len(queryKeywords) > 0
                        THEN Mul(R(Len(matchingTagsOf(result, queryKeywords)),
                                   IF Len(result.tags) > 1 THEN Len(result.tags) ELSE 1),
                                 Pct(15))
                        ELSE Zero)))

computeRelevanceScore(result, queryKeywords) ==
    LET base == Mul(PropOr(result, "relevance", Zero), Pct(60))
        catOn == HasCategory(result) /\ Len(queryKeywords) > 0
        cat == IF catOn /\ categoryMatchOf(result, queryKeywords) THEN Pct(25) ELSE Zero
        tagOn == Has(result, "tags") /\ Len(queryKeywords) > 0
        tagMatchRatio ==
            R(Len(matchingTagsOf(result, queryKeywords)),
              IF Len(result.tags) > 1 THEN Len(result.tags) ELSE 1)
        tag == IF tagOn THEN Mul(tagMatchRatio, Pct(15)) ELSE Zero
        score == Add(Add(base, cat), tag)
        factors ==
            Add(Add(Pct(60), IF catOn THEN Pct(25) ELSE Zero),
                IF tagOn THEN Pct(15) ELSE Zero)
        normalizedScore ==
            IF Gt(factors, Zero) THEN Div(score, factors)
            ELSE PropOr(result, "relevance", Zero)
    IN  MathMax(Zero, MathMin(One, normalizedScore))

\* the same without the lower limit
clampAdjustmentAbove(maxPenalty, maxBonus, adjustment) == MathMin(maxBonus, adjustment)

\* Math.max(maxPenalty, Math.min(maxBonus, adjustment))
clampAdjustment(maxPenalty, maxBonus, adjustment) ==
    MathMax(maxPenalty, MathMin(maxBonus, adjustment))

\* a budget term that rewards a good price instead of penalising a bad one
budgetPenaltyAsBonus(result, maxPenalty) ==
    Mul(PropOr(result, "price", Zero), Pct(6))

\* budgetPenalty = (1 - priceScore) * maxPenalty * 0.8
budgetPenaltyOf(result, maxPenalty) ==
    Mul(Mul(Sub(One, PropOr(result, "price", Zero)), maxPenalty), Pct(80))

applyConstraintAdjustments(result, constraints) ==
    LET maxPenalty == Pct(-25)
        maxBonus == Pct(15)
        budgetTerm ==
            IF constraints.budget THEN budgetPenaltyOf(result, maxPenalty) ELSE Zero
        maxReadingTime == parseIntNum(constraints.readingTime)
        resultReadingTime == PropOr(result, "readingTime", R(15, 1))
        overageRatio ==
            MathMin(One, Div(Sub(resultReadingTime, maxReadingTime), maxReadingTime))
        readingTerm ==
            IF Truthy(constraints.readingTime)
            THEN Add(IF Le(resultReadingTime, maxReadingTime)
                     THEN Mul(maxBonus, Pct(40))
                     ELSE Mul(Mul(overageRatio, maxPenalty), Pct(50)),
                     Mul(Prop(result, "simplicity"), Mul(maxBonus, Pct(15))))
            ELSE Zero
        depth == Prop(result, "depth")
        skillTerm ==
            IF constraints.skillLevel = "beginner"
            THEN Add(Mul(Prop(result, "simplicity"), Mul(maxBonus, Pct(60))),
                     Mul(Mul(depth, maxPenalty), Pct(50)))
            ELSE IF constraints.skillLevel = "intermediate"
            THEN Mul(IF Gt(depth, Pct(30)) THEN depth ELSE Pct(30), Mul(maxBonus, Pct(20)))
            ELSE IF constraints.skillLevel = "advanced"
            THEN Add(Add(Mul(depth, Mul(maxBonus, Pct(40))),
                         Mul(Prop(result, "citations"), Mul(maxBonus, Pct(30)))),
                     Mul(Mul(Sub(One, depth), maxPenalty), Pct(10)))
            ELSE Zero
        adjustment == Add(Add(budgetTerm, readingTerm), skillTerm)
    IN  clampAdjustment(maxPenalty, maxBonus, adjustment)

\* the metrics object of computePersonalizationScore
metricsOf(result) ==
    [simplicity |-> PropOr(result, "simplicity", Zero),
     price |-> PropOr(result, "price", Zero),
     reviews |-> PropOr(result, "reviews", Zero),
     citations |-> PropOr(result, "citations", Zero),
     depth |-> PropOr(result, "depth", Zero),
     recency |-> PropOr(result, "recency", Zero),
     readingTime |-> getReadingTimeScore(PropOr(result, "readingTime", R(15, 1)))]

\* the sum of f[k] over the keys ks
RECURSIVE SumOver(_, _)
SumOver(f, ks) ==
    IF ks = {} THEN Zero
    ELSE LET k == CHOOSE x \in ks : TRUE IN Add(f[k], SumOver(f, ks \ {k}))

\* the metrics the loop over the weights adds up: every metric but relevance
\* that the metrics object has, with a weight that is not 0
usedMetricsOf(weights, metrics) ==
    {m \in DOMAIN weights : m # "relevance" /\ m \in DOMAIN metrics /\ weights[m].n # 0}

\* totalWeight > 0 ? profileScore / totalWeight : 0.5
normalizedOrHalf(profileScore, totalWeight) ==
    IF Gt(totalWeight, Zero) THEN Div(profileScore, totalWeight) ELSE Pct(50)

\* the same with totalWeight += weight, the sign kept
profileScoreOverSigned(weights, metrics, used) ==
    normalizedOrHalf(SumOver([m \in used |-> Mul(metrics[m], weights[m])], used),
                     SumOver([m \in used |-> weights[m]], used))

\* profileScore and totalWeight after the loop over the metrics used
profileScoreOver(weights, metrics, used) ==
    normalizedOrHalf(SumOver([m \in used |-> Mul(metrics[m], weights[m])], used),
                     SumOver([m \in used |-> MathAbs(weights[m])], used))

profileScoreWith(weights, metrics) ==
    profileScoreOver(weights, metrics, usedMetricsOf(weights, metrics))

\* the weighted sum of the profile's metrics over the sum of the weights used
normalizedProfileScoreOf(result, profile) ==
    profileScoreWith(profileWeights[profile], metricsOf(result))

\* the same without the clamp to [0, 1]
computePersonalizationScoreUnclamped(result, profile, constraints) ==
    IF profile \notin DOMAIN profileWeights THEN Pct(50)
    ELSE Add(normalizedProfileScoreOf(result, profile),
             applyConstraintAdjustments(result, constraints))

computePersonalizationScore(result, profile, constraints) ==
    IF profile \notin DOMAIN profileWeights THEN Pct(50)
    ELSE MathMax(Zero,
                 MathMin(One, Add(normalizedProfileScoreOf(result, profile),
                                  applyConstraintAdjustments(result, constraints))))

filterByQueryIntent(results, query) ==
    LET keywords == extractKeywords(query)
        resultTags(result) ==
            <<toLowerCase(IF HasCategory(result) THEN result.category ELSE <<>>)>>
            \o [i \in 1..Len(IF Has(result, "tags") THEN result.tags ELSE <<>>) |->
                    toLowerCase(result.tags[i])]
    IN  IF Len(keywords) = 0 THEN results
        ELSE SelectSeq(results,
                 LAMBDA result :
                     \E keyword \in Elements(keywords) :
                         \E tag \in Elements(resultTags(result)) :
                             includes(tag, keyword) \/ includes(keyword, tag))

\* the default context of scoreResult: no keywords given, no constraints
NoConstraints == [budget |-> FALSE, readingTime |-> Null, skillLevel |-> NullStr]

scoreResult(result, profile, context) ==
    LET queryKeywords ==
            IF Has(context, "queryKeywords") THEN context.queryKeywords
            ELSE extractKeywords(IF Has(context, "query") THEN context.query ELSE <<>>)
        constraints == IF Has(context, "constraints") THEN context.constraints ELSE NoConstraints
        relevanceScore == computeRelevanceScore(result, queryKeywords)
        personalizationScore == computePersonalizationScore(result, profile, constraints)
    IN  Add(Mul(Pct(70), relevanceScore), Mul(Pct(30), personalizationScore))

\* one explanation string: which line it is and the values printed in it
Line(kind) == [line |-> kind, tags |-> <<>>, more |-> FALSE, pct |-> 0, factors |-> <<>>]

\* the contributingFactors list of generateExplanations
contributingFactorsOf(result, weights) ==
    LET scoreContributionThreshold == Pct(60)
        factor(metric, floor, text) ==
            IF Gt(weights[metric], floor) /\ Gt(Prop(result, metric), scoreContributionThreshold)
            THEN <<text>> ELSE <<>>
    IN  factor("simplicity", Pct(20), "Easy to understand")
        \o factor("price", Pct(20), "Affordable")
        \o factor("reviews", Pct(20), "Highly reviewed")
        \o factor("citations", Pct(20), "Highly cited")
        \o factor("depth", Pct(20), "Comprehensive and detailed")
        \o factor("recency", Pct(15), "Recently updated")

\* the budget line given whenever the budget constraint is active
budgetLineWhenActive(result, constraints) ==
    IF constraints.budget THEN <<Line("budget")>> ELSE <<>>

\* if (constraints.budget && result.price > scoreContributionThreshold)
budgetLineOf(result, constraints) ==
    IF constraints.budget /\ Gt(Prop(result, "price"), Pct(60))
    THEN <<Line("budget")>> ELSE <<>>

\* the generic line added after whatever lines there are
withFallbackAppended(explanations, relevanceScore) ==
    explanations
    \o (IF Ge(relevanceScore, Pct(50))
        THEN <<[Line("relevant match") EXCEPT
                   !.pct = MathRound(Mul(relevanceScore, R(100, 1)))]>>
        ELSE <<Line("best available")>>)

\* if (explanations.length === 0): one generic line, by relevanceScore >= 0.5
withFallback(explanations, relevanceScore) ==
    IF Len(explanations) = 0
    THEN IF Ge(relevanceScore, Pct(50))
         THEN <<[Line("relevant match") EXCEPT
                    !.pct = MathRound(Mul(relevanceScore, R(100, 1)))]>>
         ELSE <<Line("best available")>>
    ELSE explanations

\* reading weights.simplicity of an unknown profile raises a TypeError
generateExplanationsThrows(profile) == profile \notin DOMAIN profileWeights

generateExplanations(result, profile, constraints, queryKeywords, relevanceScore, personalizationScore) ==
    LET weights == profileWeights[profile]
        scoreContributionThreshold == Pct(60)
        pct == MathRound(Mul(relevanceScore, R(100, 1)))
        keywordsOn == Len(queryKeywords) > 0
        categoryLine ==
            IF HasCategory(result) /\ keywordsOn /\ categoryMatchOf(result, queryKeywords)
            THEN <<Line("category")>> ELSE <<>>
        matchingTags ==
            IF Has(result, "tags") /\ keywordsOn THEN matchingTagsOf(result, queryKeywords)
            ELSE <<>>
        tagLine ==
            IF Len(matchingTags) > 0
            THEN <<[Line("tags") EXCEPT !.tags = slice(matchingTags, 3),
                                        !.more = Len(matchingTags) > 3]>>
            ELSE <<>>
        relevanceLine ==
            IF Ge(relevanceScore, scoreContributionThreshold)
            THEN <<[Line("relevance") EXCEPT !.pct = pct]>> ELSE <<>>
        contributingFactors == contributingFactorsOf(result, weights)
        maxTime == parseIntNum(constraints.readingTime)
        readingLine ==
            IF /\ Truthy(constraints.readingTime)
               /\ Has(result, "readingTime") /\ Truthy(result.readingTime)
               /\ Le(result.readingTime, maxTime)
            THEN <<Line("readingTime")>> ELSE <<>>
        budgetLine == budgetLineOf(result, constraints)
        skillLine ==
            IF /\ constraints.skillLevel = "beginner"
               /\ Gt(Prop(result, "simplicity"), scoreContributionThreshold)
            THEN <<Line("beginner")>>
            ELSE IF /\ constraints.skillLevel = "intermediate"
                    /\ Gt(Prop(result, "depth"), Pct(40))
            THEN <<Line("intermediate")>>
            ELSE IF /\ constraints.skillLevel = "advanced"
                    /\ Gt(Prop(result, "depth"), scoreContributionThreshold)
            THEN <<Line("advanced")>>
            ELSE <<>>
        profileLine ==
            IF Len(contributingFactors) > 0
            THEN <<[Line("profile") EXCEPT !.factors = slice(contributingFactors, 2)]>>
            ELSE <<>>
        explanations ==
            categoryLine \o tagLine \o relevanceLine \o readingLine \o budgetLine
            \o skillLine \o profileLine
    IN  withFallback(explanations, relevanceScore)

\* a comparator that also puts b before an a of the same score
SortsBeforeOrLevel(b, a) == Ge(b.score, a.score)

\* the comparator (a, b) => b.score - a.score is positive: b sorts before a
SortsBefore(b, a) == Gt(b.score, a.score)

\* Array.prototype.sort is stable: an element moves in front of exactly those
\* earlier elements the comparator puts it before
RECURSIVE InsertSorted(_, _)
InsertSorted(sorted, x) ==
    IF sorted = <<>> THEN <<x>>
    ELSE IF SortsBefore(x, Head(sorted)) THEN <<x>> \o sorted
    ELSE <<Head(sorted)>> \o InsertSorted(Tail(sorted), x)

RECURSIVE sort(_)
sort(xs) ==
    IF xs = <<>> THEN <<>>
    ELSE InsertSorted(sort(SubSeq(xs, 1, Len(xs) - 1)), xs[Len(xs)])

\* { ...result, score, profile, explanations }
Scored(result, finalScore, profile, explanations) ==
    [k \in DOMAIN result \cup {"score", "profile", "explanations"} |->
        IF k = "score" THEN finalScore
        ELSE IF k = "profile" THEN profile
        ELSE IF k = "explanations" THEN explanations
        ELSE result[k]]

\* the weights of the two scores exchanged
finalScoreSwapped(relevanceScore, personalizationScore) ==
    Add(Mul(Pct(30), relevanceScore), Mul(Pct(70), personalizationScore))

\* (0.7 * relevanceScore) + (0.3 * personalizationScore) of rankResults
finalScoreOf(relevanceScore, personalizationScore) ==
    Add(Mul(Pct(70), relevanceScore), Mul(Pct(30), personalizationScore))

\* the value rankResults returns, or the exception it ends with
Returned(v) == [threw |-> FALSE, value |-> v]
Thrown == [threw |-> TRUE, value |-> <<>>]

\* the object the map of rankResults builds for one result from its two scores
scoredResultOf(result, profile, constraints, queryKeywords, relevanceScore, personalizationScore) ==
    Scored(result, finalScoreOf(relevanceScore, personalizationScore), profile,
           generateExplanations(result, profile, constraints, queryKeywords,
                                relevanceScore, personalizationScore))

\* intentFilteredResults.map(result => ...)
scoredResultsOf(results, profile, constraints, queryKeywords) ==
    [i \in 1..Len(results) |->
        scoredResultOf(results[i], profile, constraints, queryKeywords,
                       computeRelevanceScore(results[i], queryKeywords),
                       computePersonalizationScore(results[i], profile, constraints))]

\* a ranking that drops the expensive results when the budget constraint is active
rankFilteredWithinBudget(intentFilteredResults, profile, constraints, queryKeywords) ==
    IF Len(intentFilteredResults) = 0 THEN Returned(<<>>)
    ELSE IF generateExplanationsThrows(profile) THEN Thrown
    ELSE Returned(sort(scoredResultsOf(
             SelectSeq(intentFilteredResults,
                       LAMBDA result :
                           ~constraints.budget \/ Gt(Prop(result, "price"), Pct(50))),
             profile, constraints, queryKeywords)))

\* rankResults from its intent filter on
rankFiltered(intentFilteredResults, profile, constraints, queryKeywords) ==
    IF Len(intentFilteredResults) = 0 THEN Returned(<<>>)
    ELSE IF generateExplanationsThrows(profile) THEN Thrown
    ELSE Returned(sort(scoredResultsOf(intentFilteredResults, profile, constraints,
                                       queryKeywords)))

rankResults(request) ==
    IF Len(request.results) = 0 THEN Returned(<<>>)
    ELSE rankFiltered(filterByQueryIntent(request.results, request.query),
                      request.profile, request.constraints,
                      extractKeywords(request.query))

\* the result passes the intent filter of the query (the filter tests each
\* result on its own)
passesIntent(result, query) == Len(filterByQueryIntent(<<result>>, query)) = 1

\* a map callback that stores the relevance score in the result it was given
candidateOverwritten(result, relevanceScore) ==
    [result EXCEPT !.relevance = relevanceScore]

\* the result the map callback of rankResults was given, after the callback:
\* { ...result, score, profile, explanations } copies it into a new object and
\* the callback assigns to nothing else
candidateAfterScoring(result, relevanceScore) == result

\* the array the caller passed, after scoredResults.sort: map returned a new
\* array, so the sort moves nothing in the caller's array
candidatesAfterSort(results, rankedResults) == results

\* the array passed as request.results after rankResults(request) returned or threw
candidatesAfterRank(request, outcome) ==
    IF outcome.threw \/ Len(outcome.value) = 0 THEN request.results
    ELSE candidatesAfterSort(
             [i \in 1..Len(request.results) |->
                 IF passesIntent(request.results[i], request.query)
                 THEN candidateAfterScoring(
                          request.results[i],
                          computeRelevanceScore(request.results[i],
                                                extractKeywords(request.query)))
                 ELSE request.results[i]],
             outcome.value)

(* ------------------------------ the data ------------------------------- *)

\* the strings of the model, letter by letter
sEmpty == <<>>
sBlank == <<" ", " ">>
sShort == <<"h", "o", "w", " ", "t", "o">>
sBookQ == <<"B", "o", "o", "k">>
sHtmlBooks == <<"h", "t", "m", "l", " ", "b", "o", "o", "k", "s">>
sTutorialQ ==
    <<"m", "a", "c", "h", "i", "n", "e", " ", "l", "e", "a", "r", "n", "i", "n", "g", " ", "t", "u", "t", "o", "r", "i", "a", "l">>
sQuantum == <<"q", "u", "a", "n", "t", "u", "m">>
sCourse == <<"c", "o", "u", "r", "s", "e">>
sMachineLearning ==
    <<"m", "a", "c", "h", "i", "n", "e", " ", "l", "e", "a", "r", "n", "i", "n", "g">>
sTutorial == <<"t", "u", "t", "o", "r", "i", "a", "l">>
sLearning == <<"l", "e", "a", "r", "n", "i", "n", "g">>
sRecipe == <<"r", "e", "c", "i", "p", "e">>
sCooking == <<"c", "o", "o", "k", "i", "n", "g">>
sBookC == <<"B", "o", "o", "k">>
sBooks == <<"b", "o", "o", "k", "s">>
sArticle == <<"a", "r", "t", "i", "c", "l", "e">>
sMl == <<"M", "L">>
sThirty == <<"3", "0", "m", "i", "n">>

\* getDefaultResults: the one result used when data/results.json cannot be read
getDefaultResults ==
    <<[id |-> 1, category |-> sCourse,
       tags |-> <<sMachineLearning, sCourse, sTutorial, sLearning>>,
       relevance |-> Pct(95), simplicity |-> Pct(85), price |-> Pct(30),
       reviews |-> Pct(92), citations |-> Pct(70), depth |-> Pct(88),
       recency |-> Pct(75), readingTime |-> R(20, 1)]>>

\* a result of data/results.json with every field
Item(id, category, tags, m, readingTime) ==
    [id |-> id, category |-> category, tags |-> tags,
     relevance |-> Pct(m[1]), simplicity |-> Pct(m[2]), price |-> Pct(m[3]),
     reviews |-> Pct(m[4]), citations |-> Pct(m[5]), depth |-> Pct(m[6]),
     recency |-> Pct(m[7]), readingTime |-> R(readingTime, 1)]

\* the results data/results.json may hold: the extremes of every metric, two
\* results that differ in id only, a result without a category and a result
\* without metrics
dRecipe == Item(2, sRecipe, <<sCooking>>, <<50, 40, 70, 60, 10, 30, 80>>, 45)
dBook == Item(3, sBookC, <<sBooks>>, <<100, 100, 100, 100, 100, 100, 100>>, 5)
dArticle == Item(4, sArticle, <<sMl>>, <<0, 0, 0, 0, 0, 0, 0>>, 60)
dNoCategory ==
    [id |-> 5, tags |-> <<sCooking>>,
     relevance |-> Pct(90), simplicity |-> Pct(70), price |-> Pct(20),
     reviews |-> Pct(50), citations |-> Pct(0), depth |-> Pct(50),
     recency |-> Pct(60), readingTime |-> R(15, 1)]
dRecipeTwin == Item(6, sRecipe, <<sCooking>>, <<50, 40, 70, 60, 10, 30, 80>>, 45)
dBare == [id |-> 7, category |-> sCourse, tags |-> <<sTutorial>>, relevance |-> Pct(60)]

fullResults == getDefaultResults \o <<dRecipe, dBook, dArticle, dNoCategory, dRecipeTwin>>
mixedResults == <<dRecipeTwin, dBare, dArticle, dRecipe, dBook>>

\* data/results.json: readable with the results above, or unreadable
DataFileStates == {"readable", "unreadable"}

(* ------------------------------- server.js ----------------------------- *)

validProfiles == <<"student", "shopper", "researcher", "casual">>

\* the digit a character stands for, -1 for any other character
DigitOf(c) ==
    CASE c = "0" -> 0 [] c = "1" -> 1 [] c = "2" -> 2 [] c = "3" -> 3 [] c = "4" -> 4
      [] c = "5" -> 5 [] c = "6" -> 6 [] c = "7" -> 7 [] c = "8" -> 8 [] c = "9" -> 9
      [] OTHER -> -1

\* the value of the leading digits of s after acc, and whether a digit was seen
RECURSIVE Digits(_, _, _)
Digits(s, acc, seen) ==
    IF s = <<>> \/ DigitOf(Head(s)) < 0 THEN <<acc, seen>>
    ELSE Digits(Tail(s), 10 * acc + DigitOf(Head(s)), TRUE)

\* parseInt of a string: leading whitespace, a sign, then digits up to the first
\* other character; NaN when there is no digit
parseInt(str) ==
    LET s == trimStart(str)
        neg == s # <<>> /\ Head(s) = "-"
        body == IF s # <<>> /\ Head(s) \in {"-", "+"} THEN Tail(s) ELSE s
        r == Digits(body, 0, FALSE)
    IN  IF r[2] THEN R(IF neg THEN -r[1] ELSE r[1], 1) ELSE NaN

\* the first entry of the table whose keyword list has a keyword inside content
inferCategoryRules ==
    <<
      <<<<"c", "o", "u", "r", "s", "e">>,
        <<<<"c", "o", "u", "r", "s", "e">>, <<"u", "d", "e", "m", "y">>, <<"c", "o", "u", "r", "s", "e", "r", "a">>>>>>,
      <<<<"b", "o", "o", "k">>,
        <<<<"b", "o", "o", "k">>, <<"a", "m", "a", "z", "o", "n">>, <<"g", "o", "o", "d", "r", "e", "a", "d", "s">>>>>>,
      <<<<"r", "e", "s", "e", "a", "r", "c", "h">>,
        <<<<"p", "a", "p", "e", "r">>, <<"a", "r", "x", "i", "v">>, <<"s", "c", "h", "o", "l", "a", "r">>>>>>,
      <<<<"c", "o", "d", "e">>,
        <<<<"g", "i", "t", "h", "u", "b">>, <<"d", "o", "c", "u", "m", "e", "n", "t", "a", "t", "i", "o", "n">>>>>>,
      <<<<"p", "r", "o", "d", "u", "c", "t">>,
        <<<<"p", "r", "o", "d", "u", "c", "t">>, <<"s", "h", "o", "p">>>>>>,
      <<<<"a", "r", "t", "i", "c", "l", "e">>,
        <<<<"n", "e", "w", "s">>, <<"b", "l", "o", "g">>>>>>
    >>

inferCategory(item) ==
    LET url == toLowerCase(IF Has(item, "url") THEN item.url ELSE <<>>)
        hits == SelectSeq(inferCategoryRules,
                          LAMBDA rule : \E word \in Elements(rule[2]) : includes(url, word))
    IN  IF Len(hits) > 0 THEN hits[1][1] ELSE sArticle

tagKeywords ==
    <<
      <<<<"m", "a", "c", "h", "i", "n", "e", " ", "l", "e", "a", "r", "n", "i", "n", "g">>,
        <<<<"m", "a", "c", "h", "i", "n", "e", " ", "l", "e", "a", "r", "n", "i", "n", "g">>,
          <<"m", "l">>,
          <<"a", "i">>,
          <<"a", "r", "t", "i", "f", "i", "c", "i", "a", "l", " ", "i", "n", "t", "e", "l", "l", "i", "g", "e", "n", "c", "e">>>>>>,
      <<<<"p", "y", "t", "h", "o", "n">>,
        <<<<"p", "y", "t", "h", "o", "n">>>>>>,
      <<<<"j", "a", "v", "a", "s", "c", "r", "i", "p", "t">>,
        <<<<"j", "a", "v", "a", "s", "c", "r", "i", "p", "t">>,
          <<"j", "s">>,
          <<"n", "o", "d", "e", "j", "s">>,
          <<"n", "o", "d", "e">>>>>>,
      <<<<"w", "e", "b", " ", "d", "e", "v", "e", "l", "o", "p", "m", "e", "n", "t">>,
        <<<<"w", "e", "b">>,
          <<"h", "t", "m", "l">>,
          <<"c", "s", "s">>,
          <<"r", "e", "a", "c", "t">>,
          <<"v", "u", "e">>>>>>,
      <<<<"d", "a", "t", "a", " ", "s", "c", "i", "e", "n", "c", "e">>,
        <<<<"d", "a", "t", "a", " ", "s", "c", "i", "e", "n", "c", "e">>,
          <<"d", "a", "t", "a", " ", "a", "n", "a", "l", "y", "t", "i", "c", "s">>,
          <<"a", "n", "a", "l", "y", "t", "i", "c", "s">>>>>>,
      <<<<"t", "u", "t", "o", "r", "i", "a", "l">>,
        <<<<"t", "u", "t", "o", "r", "i", "a", "l">>,
          <<"g", "u", "i", "d", "e">>,
          <<"h", "o", "w", " ", "t", "o">>,
          <<"l", "e", "a", "r", "n">>>>>>,
      <<<<"d", "o", "c", "u", "m", "e", "n", "t", "a", "t", "i", "o", "n">>,
        <<<<"d", "o", "c", "u", "m", "e", "n", "t", "a", "t", "i", "o", "n">>,
          <<"d", "o", "c", "s">>,
          <<"r", "e", "f", "e", "r", "e", "n", "c", "e">>>>>>,
      <<<<"e", "x", "a", "m", "p", "l", "e">>,
        <<<<"e", "x", "a", "m", "p", "l", "e">>,
          <<"c", "o", "d", "e", " ", "s", "a", "m", "p", "l", "e">>>>>>
    >>

sGeneral == <<"g", "e", "n", "e", "r", "a", "l">>

inferTags(item) ==
    LET content ==
            toLowerCase((IF Has(item, "name") THEN item.name ELSE <<>>) \o <<" ">>
                        \o (IF Has(item, "snippet") THEN item.snippet ELSE <<>>))
        hits == SelectSeq(tagKeywords,
                          LAMBDA entry :
                              \E keyword \in Elements(entry[2]) : includes(content, keyword))
        tags == [i \in 1..Len(hits) |-> hits[i][1]]
    IN  IF Len(tags) > 0 THEN tags ELSE <<sGeneral>>

\* the pages the provider may answer with
ProviderPages ==
    <<[name |-> <<"M", "L", " ", "B", "o", "o", "k">>, url |-> <<"a", "m", "a", "z", "o", "n", ".", "c", "o", "m", "/", "m", "l">>,
       snippet |-> <<"l", "e", "a", "r", "n", " ", "a", "i">>],
      [name |-> <<"N", "e", "w", "s">>, url |-> <<"b", "b", "c", ".", "c", "o", "m">>,
       snippet |-> <<>>],
      [name |-> <<"J", "S", " ", "d", "o", "c", "s">>, url |-> <<"g", "i", "t", "h", "u", "b", ".", "c", "o", "m", "/", "j", "s">>,
       snippet |-> <<"r", "e", "f", "e", "r", "e", "n", "c", "e">>],
      [name |-> <<"S", "h", "o", "p">>, url |-> <<"s", "h", "o", "p", ".", "c", "o", "m">>,
       snippet |-> <<"b", "o", "o", "k", "s">>]>>

\* the values Math.random() takes in the model, in hundredths; the eight draws
\* of one item are taken equal
RandomDraws == {0, 95}

\* the map of bingSearch: a provider page as a result, rnd the value of Math.random()
Transform(item, index, rnd) ==
    [id |-> index + 1,
     category |-> inferCategory(item),
     tags |-> inferTags(item),
     relevance |-> Add(Pct(80), Mul(Pct(rnd), Pct(20))),
     simplicity |-> Add(Pct(70), Mul(Pct(rnd), Pct(30))),
     price |-> Add(Pct(50), Mul(Pct(rnd), Pct(50))),
     reviews |-> Add(Pct(60), Mul(Pct(rnd), Pct(40))),
     citations |-> Add(Pct(30), Mul(Pct(rnd), Pct(40))),
     depth |-> Add(Pct(60), Mul(Pct(rnd), Pct(40))),
     recency |-> Add(Pct(70), Mul(Pct(rnd), Pct(30))),
     readingTime |-> R(5 + ((rnd * 40) \div 100), 1)]

(* --------------------------- the search endpoints ---------------------- *)

VARIABLES
    configured,    \* BING_ENDPOINT and BING_API_KEY are both set in process.env
    dataFile,      \* what data/results.json holds
    mockResults,   \* the cache of ranking-engine.js
    pc,            \* where the handler of each request in progress stands
    request,       \* its request: the method and req.query or req.body
    locals,        \* query, profile and constraints of the handler
    settled,       \* how its provider call ended, once it has
    liveResults,   \* the results bingSearch returned to it
    response,      \* the response it sent
    bingInvoked,   \* bingSearch was called for the request
    rankInvoked,   \* rankResults was called for the request
    call,          \* the arguments of a direct call of the ranking engine
    ranked,        \* what rankResults returned for them
    filtered,      \* what filterByQueryIntent returned for them
    scored,        \* what scoreResult returned for each of their results
    adjusted,      \* what applyConstraintAdjustments returned for each of them
    candidates,    \* the array passed as request.results, as the calls left it
    again,         \* a second call of rankResults on that array, and what it returned
    timeCall,      \* the argument of a direct call of getReadingTimeScore
    timeScore,     \* what getReadingTimeScore returned for it
    profileSelect,     \* app.js: the profile selected in the page
    lastSearchContext, \* its global of that name
    resultsContainer,  \* what the results container shows
    searches,          \* the invocations of handleSearch waiting at an await
    uncaught,          \* the error the last event listener ended with, if any
    lastStarted        \* the invocation of handleSearch started last, and what it left

serverVars ==
    <<configured, dataFile, mockResults, pc, request, locals, settled, liveResults,
      response, bingInvoked, rankInvoked>>

engineVars == <<call, ranked, filtered, scored, adjusted, candidates, again>>

normalizerVars == <<timeCall, timeScore>>

clientVars ==
    <<profileSelect, lastSearchContext, resultsContainer, searches, uncaught, lastStarted>>

nonServerVars == <<engineVars, normalizerVars, clientVars>>

nonEngineVars == <<serverVars, normalizerVars, clientVars>>

nonClientVars == <<serverVars, engineVars, normalizerVars>>

vars == <<serverVars, engineVars, normalizerVars, clientVars>>

\* an object with the keys whose choice is not empty; a choice is <<>> or <<value>>
Object(choices) ==
    [k \in {key \in DOMAIN choices : choices[key] # <<>>} |-> choices[k][1]]

\* the query strings of GET /api/search
GetRequests ==
    {Object([q |-> q, profile |-> p, budget |-> b, readingTime |-> t, skillLevel |-> l]) :
        q \in {<<>>, <<sEmpty>>, <<sBlank>>, <<sShort>>, <<sBookQ>>, <<sQuantum>>},
        p \in {<<>>, <<"student">>, <<"admin">>},
        b \in {<<>>, <<"true">>},
        t \in {<<>>, <<sThirty>>},
        l \in {<<>>, <<"beginner">>, <<"expert">>}}

\* the constraints objects of the bodies of POST /api/search
PostConstraints ==
    {[budget |-> FALSE, readingTime |-> Null, skillLevel |-> NullStr],
     [budget |-> TRUE, readingTime |-> R(25, 2), skillLevel |-> "advanced"],
     [budget |-> FALSE, readingTime |-> NaN, skillLevel |-> "master"]}

\* the bodies of POST /api/search
PostRequests ==
    {Object([query |-> q, profile |-> p, constraints |-> c]) :
        q \in {<<>>, <<sBlank>>, <<sHtmlBooks>>, <<sTutorialQ>>},
        p \in {<<>>, <<"shopper">>, <<"casual">>, <<"">>},
        c \in {<<>>} \cup {<<x>> : x \in PostConstraints}}

NoRequest == [method |-> "none", params |-> <<>>]
NoLocals == [query |-> <<>>, profile |-> "", constraints |-> NoConstraints]
NoResponse ==
    [status |-> 0, success |-> FALSE, error |-> "", valid |-> <<>>, query |-> <<>>,
     profile |-> "", totalResults |-> 0, results |-> <<>>, apiSource |-> ""]
NotLoaded == [loaded |-> FALSE, value |-> <<>>]
NoCall == [query |-> <<>>, profile |-> "", constraints |-> NoConstraints, results |-> <<>>]
NotRanked == [done |-> FALSE, threw |-> FALSE, value |-> <<>>]
NotFiltered == [done |-> FALSE, value |-> <<>>]
NotScored == [done |-> FALSE, value |-> <<>>]
NotAdjusted == [done |-> FALSE, value |-> <<>>]
NoTimeScore == [done |-> FALSE, value |-> Zero]
NotAgain ==
    [done |-> FALSE, profile |-> "", constraints |-> NoConstraints, threw |-> FALSE,
     value |-> <<>>]

\* no direct call of the ranking engine is modelled
EngineIdle ==
    /\ call = NoCall
    /\ ranked = NotRanked
    /\ filtered = NotFiltered
    /\ scored = NotScored
    /\ adjusted = NotAdjusted
    /\ candidates = <<>>
    /\ again = NotAgain

NormalizerIdle == timeCall = Zero /\ timeScore = NoTimeScore

\* the invocations of handleSearch that can be waiting at a time
Searches == 1..MaxSearches

\* the body of an answer with success: false
failureData(error) ==
    [success |-> FALSE, error |-> error, totalResults |-> 0, results |-> <<>>,
     apiSource |-> ""]

NoContext == [null |-> TRUE]
NoData == failureData("")
NoClientConstraints ==
    [budget |-> FALSE, budgetAmount |-> Null, readingTime |-> Null, skillLevel |-> NullStr]
NoSearch ==
    [pc |-> "idle", searchQuery |-> <<>>, userProfile |-> "",
     constraints |-> NoClientConstraints, data |-> NoData]

\* resultsContainer.innerHTML: the page as loaded, the loading, empty and
\* error states, or the cards of displayResults
Container(state, cards) == [state |-> state, cards |-> cards]

\* handleSearch was not started
NoneStarted ==
    [s |-> 0, query |-> <<>>, constraints |-> NoClientConstraints, overlapped |-> FALSE,
     handled |-> FALSE, stored |-> FALSE, shown |-> Container("initial", <<>>)]

\* the page is loaded and nothing was searched
ClientIdle ==
    /\ lastStarted = NoneStarted
    /\ profileSelect = "student"
    /\ lastSearchContext = NoContext
    /\ resultsContainer = Container("initial", <<>>)
    /\ searches = [s \in Searches |-> NoSearch]
    /\ uncaught = ""

\* the handlers that can be in progress at a time
Slots == 1..MaxRequests

\* the smaller of two integers
Min(a, b) == IF a < b THEN a ELSE b

\* the same value for every handler
Everywhere(x) == [r \in Slots |-> x]

\* no request is in progress
HandlersIdle ==
    /\ pc = Everywhere("idle")
    /\ request = Everywhere(NoRequest)
    /\ locals = Everywhere(NoLocals)
    /\ settled = Everywhere("none")
    /\ liveResults = Everywhere(<<>>)
    /\ response = Everywhere(NoResponse)
    /\ bingInvoked = Everywhere(FALSE)
    /\ rankInvoked = Everywhere(FALSE)

\* res.status(400).json({ success: false, error })
BadRequest(error, valid) ==
    [NoResponse EXCEPT !.status = 400, !.error = error, !.valid = valid]

\* res.status(500).json({ success: false, error: 'Internal server error' })
ServerError == [NoResponse EXCEPT !.status = 500, !.error = "Internal server error"]

\* what data/results.json gives when it is read now
readDataFile == IF dataFile = "unreadable" THEN getDefaultResults ELSE fullResults

\* a getMockResults that reads the file at every call
getMockResultsReloading == [loaded |-> TRUE, value |-> readDataFile]

\* getMockResults: the cache after the call (the value returned is its value)
getMockResults ==
    IF mockResults.loaded THEN mockResults
    ELSE [loaded |-> TRUE, value |-> readDataFile]

\* an answer that reports a ranking without results as a failure
AnswerNotFound(r, rankedResults, apiSource) ==
    IF rankedResults.threw THEN ServerError
    ELSE IF Len(rankedResults.value) = 0
    THEN [NoResponse EXCEPT !.status = 404, !.error = "No results found"]
    ELSE [status |-> 200, success |-> TRUE, error |-> "", valid |-> <<>>,
          query |-> locals[r].query, profile |-> locals[r].profile,
          totalResults |-> Len(rankedResults.value),
          results |-> rankedResults.value, apiSource |-> apiSource]

\* res.json({ success: true, ... }), or the answer of the outer catch block
\* when rankResults threw
Answer(r, rankedResults, apiSource) ==
    IF rankedResults.threw THEN ServerError
    ELSE [status |-> 200, success |-> TRUE, error |-> "", valid |-> <<>>,
          query |-> locals[r].query, profile |-> locals[r].profile,
          totalResults |-> Len(rankedResults.value),
          results |-> rankedResults.value, apiSource |-> apiSource]

\* what the last segment of the handler leaves: the cache, as getMockResults
\* and then rankResults left it when the cached array was the one ranked, and
\* the response
FinishLeaves(r, rankRequest, outcome, apiSource, cacheRanked) ==
    /\ mockResults' =
          [loaded |-> TRUE,
           value |-> IF cacheRanked THEN candidatesAfterRank(rankRequest, outcome)
                     ELSE getMockResults.value]
    /\ rankInvoked' = [rankInvoked EXCEPT ![r] = TRUE]
    /\ response' = [response EXCEPT ![r] = Answer(r, outcome, apiSource)]
    /\ pc' = [pc EXCEPT ![r] = "responded"]

\* rankingEngine.rankResults({ query, profile, constraints, results: searchResults })
FinishRanking(r, rankRequest, apiSource, cacheRanked) ==
    FinishLeaves(r, rankRequest, rankResults(rankRequest), apiSource, cacheRanked)

\* the handler from the end of its try/catch around bingSearch to res.json
Finish(r, live, apiSource) ==
    FinishRanking(r,
                  [query |-> locals[r].query, profile |-> locals[r].profile,
                   constraints |-> locals[r].constraints,
                   results |-> IF Len(live) > 0 THEN live ELSE getMockResults.value],
                  apiSource, Len(live) = 0)

\* the same without the trim
queryMissingUntrimmed(query) == query = <<>>

\* !query || query.trim() === ''
queryMissing(query) == query = <<>> \/ trim(query) = <<>>

\* validProfiles.includes(profile)
profileValid(profile) == profile \in Elements(validProfiles)

\* bingSearch up to its first await: without credentials it throws at once
CallBing(r) ==
    /\ bingInvoked' = [bingInvoked EXCEPT ![r] = TRUE]
    /\ IF configured
       THEN /\ pc' = [pc EXCEPT ![r] = "awaitFetch"]
            /\ settled' = [settled EXCEPT ![r] = "pending"]
       ELSE /\ pc' = [pc EXCEPT ![r] = "settled"]
            /\ settled' = [settled EXCEPT ![r] = "no credentials"]
    /\ UNCHANGED liveResults

\* a validation answer: the handler returns without calling anything
Reject(r, resp) ==
    /\ response' = [response EXCEPT ![r] = resp]
    /\ pc' = [pc EXCEPT ![r] = "responded"]
    /\ UNCHANGED <<locals, settled, liveResults, bingInvoked>>

\* the handler once query, profile and constraints are read from the request
Validate(r, query, profile, constraints, queryError) ==
    IF queryMissing(query)
    THEN Reject(r, BadRequest(queryError, <<>>))
    ELSE IF ~profileValid(profile)
    THEN Reject(r, BadRequest("Invalid profile. Must be one of", validProfiles))
    ELSE /\ locals' = [locals EXCEPT ![r] = [query |-> query, profile |-> profile,
                                            constraints |-> constraints]]
         /\ CallBing(r)
         /\ UNCHANGED response

\* req.query.profile || 'casual'
profileOf(params) ==
    IF Has(params, "profile") /\ params.profile # "" THEN params.profile ELSE "casual"

\* the constraints object of the GET handler (the budget amount and the
\* currency take no part in the ranking)
parseConstraints(params) ==
    [budget |-> Has(params, "budget") /\ params.budget = "true",
     readingTime |->
         IF Has(params, "readingTime") /\ params.readingTime # <<>>
         THEN parseInt(params.readingTime) ELSE Null,
     skillLevel |->
         IF Has(params, "skillLevel") /\ params.skillLevel # ""
         THEN params.skillLevel ELSE NullStr]

\* app.get('/api/search'): validation, constraint parsing and the call of bingSearch
GetSearch(r, params) ==
    /\ pc[r] = "idle"
    /\ request' = [request EXCEPT ![r] = [method |-> "GET", params |-> params]]
    /\ Validate(r,
                IF Has(params, "q") THEN params.q ELSE <<>>,
                profileOf(params), parseConstraints(params),
                "Query parameter \"q\" is required")
    /\ UNCHANGED <<configured, dataFile, mockResults, rankInvoked, nonServerVars>>

\* app.post('/api/search'): the same with the request body
PostSearch(r, body) ==
    /\ pc[r] = "idle"
    /\ request' = [request EXCEPT ![r] = [method |-> "POST", params |-> body]]
    /\ Validate(r,
                IF Has(body, "query") THEN body.query ELSE <<>>,
                IF Has(body, "profile") THEN body.profile ELSE "casual",
                IF Has(body, "constraints") THEN body.constraints ELSE NoConstraints,
                "Query is required in request body")
    /\ UNCHANGED <<configured, dataFile, mockResults, rankInvoked, nonServerVars>>

\* the provider cannot be reached: fetch rejects
FetchRejects(r) ==
    /\ pc[r] = "awaitFetch"
    /\ pc' = [pc EXCEPT ![r] = "settled"]
    /\ settled' = [settled EXCEPT ![r] = "fetch failed"]
    /\ UNCHANGED <<configured, dataFile, mockResults, request, locals, liveResults,
                   response, bingInvoked, rankInvoked, nonServerVars>>

\* the provider answers the request with a status
FetchResolves(r, ok) ==
    /\ pc[r] = "awaitFetch"
    /\ pc' = [pc EXCEPT ![r] = "fetched"]
    /\ settled' = [settled EXCEPT ![r] = IF ok THEN "ok" ELSE "not ok"]
    /\ UNCHANGED <<configured, dataFile, mockResults, request, locals, liveResults,
                   response, bingInvoked, rankInvoked, nonServerVars>>

\* bingSearch after its fetch: a status that is not OK throws, an OK one reads the body
AfterFetch(r) ==
    /\ pc[r] = "fetched"
    /\ IF settled[r] = "ok"
       THEN /\ pc' = [pc EXCEPT ![r] = "awaitJson"]
            /\ UNCHANGED <<mockResults, response, rankInvoked>>
       ELSE Finish(r, <<>>, "mock")
    /\ UNCHANGED <<configured, dataFile, request, locals, settled, liveResults,
                   bingInvoked, nonServerVars>>

\* the body of the answer is not JSON: response.json() rejects
JsonRejects(r) ==
    /\ pc[r] = "awaitJson"
    /\ pc' = [pc EXCEPT ![r] = "settled"]
    /\ settled' = [settled EXCEPT ![r] = "bad body"]
    /\ UNCHANGED <<configured, dataFile, mockResults, request, locals, liveResults,
                   response, bingInvoked, rankInvoked, nonServerVars>>

\* the body is read: count pages (none when data.webPages is missing), rnd drawn
JsonResolves(r, count, rnd) ==
    /\ pc[r] = "awaitJson"
    /\ pc' = [pc EXCEPT ![r] = "parsed"]
    /\ settled' = [settled EXCEPT ![r] = "returned"]
    /\ liveResults' =
          [liveResults EXCEPT
              ![r] = [i \in 1..count |-> Transform(ProviderPages[i], i - 1, rnd)]]
    /\ UNCHANGED <<configured, dataFile, mockResults, request, locals, response,
                   bingInvoked, rankInvoked, nonServerVars>>

\* the handler after bingSearch returned: the live results, or the mock ones if none
AfterBing(r) ==
    /\ pc[r] = "parsed"
    /\ Finish(r, liveResults[r], "bing")
    /\ UNCHANGED <<configured, dataFile, request, locals, settled, liveResults,
                   bingInvoked, nonServerVars>>

\* the same without the catch block: the error reaches the outer catch
AfterBingErrorUncaught(r) ==
    /\ pc[r] = "settled"
    /\ pc' = [pc EXCEPT ![r] = "responded"]
    /\ response' = [response EXCEPT ![r] = ServerError]
    /\ UNCHANGED <<configured, dataFile, mockResults, request, locals, settled,
                   liveResults, bingInvoked, rankInvoked, nonServerVars>>

\* the handler after bingSearch threw: its catch block, then the mock results
AfterBingError(r) ==
    /\ pc[r] = "settled"
    /\ Finish(r, <<>>, "mock")
    /\ UNCHANGED <<configured, dataFile, request, locals, settled, liveResults,
                   bingInvoked, nonServerVars>>

\* the handler returns after res.json: its locals are gone, the cache stays
HandlerReturns(r) ==
    /\ pc[r] = "responded"
    /\ pc' = [pc EXCEPT ![r] = "idle"]
    /\ request' = [request EXCEPT ![r] = NoRequest]
    /\ locals' = [locals EXCEPT ![r] = NoLocals]
    /\ settled' = [settled EXCEPT ![r] = "none"]
    /\ liveResults' = [liveResults EXCEPT ![r] = <<>>]
    /\ response' = [response EXCEPT ![r] = NoResponse]
    /\ bingInvoked' = [bingInvoked EXCEPT ![r] = FALSE]
    /\ rankInvoked' = [rankInvoked EXCEPT ![r] = FALSE]
    /\ UNCHANGED <<configured, dataFile, mockResults, nonServerVars>>

\* the server starts: nothing cached, no request in progress
Init ==
    /\ configured \in BOOLEAN
    /\ dataFile \in DataFileStates
    /\ mockResults = NotLoaded
    /\ HandlersIdle
    /\ EngineIdle
    /\ NormalizerIdle
    /\ ClientIdle

\* the server takes one request at a time: the first handler only
Next ==
    \/ \E params \in GetRequests : GetSearch(1, params)
    \/ \E body \in PostRequests : PostSearch(1, body)
    \/ FetchRejects(1)
    \/ \E ok \in BOOLEAN : FetchResolves(1, ok)
    \/ AfterFetch(1)
    \/ JsonRejects(1)
    \/ \E count \in 0..MaxLive, rnd \in RandomDraws : JsonResolves(1, count, rnd)
    \/ AfterBing(1)
    \/ AfterBingError(1)
    \/ HandlerReturns(1)

Spec == Init /\ [][Next]_vars

\* a continuation of the handler runs: AfterFetch, AfterBing or AfterBingError,
\* told by where they take the handler (these are the only steps of Next that
\* leave the three places)
HandlerContinues ==
    /\ pc[1] \in {"fetched", "parsed", "settled"}
    /\ \E place \in {"awaitJson", "responded"} : pc' = [pc EXCEPT ![1] = place]

\* the event loop runs every continuation that is ready; nothing makes the
\* provider answer and nothing makes a client send a request
LiveSpec == Spec /\ WF_pc(HandlerContinues)

(* ---------------------- requests handled concurrently ------------------ *)

\* the requests that overlap: a query without keywords and one with a keyword
ConcurrentRequests ==
    {[q |-> sShort, profile |-> "student"], [q |-> sBookQ, budget |-> "true"]}

\* data/results.json is replaced, removed or restored while the server runs
DataFileChanges ==
    /\ \E state \in DataFileStates \ {dataFile} : dataFile' = state
    /\ UNCHANGED <<configured, mockResults, pc, request, locals, settled, liveResults,
                   response, bingInvoked, rankInvoked, nonServerVars>>

\* every handler may run; the handlers interleave at their awaits
ConcurrentNext ==
    \/ \E r \in Slots, params \in ConcurrentRequests : GetSearch(r, params)
    \/ \E r \in Slots : FetchRejects(r)
    \/ \E r \in Slots : FetchResolves(r, TRUE)
    \/ \E r \in Slots : AfterFetch(r)
    \/ \E r \in Slots : JsonResolves(r, 1, 0)
    \/ \E r \in Slots : AfterBing(r)
    \/ \E r \in Slots : AfterBingError(r)
    \/ \E r \in Slots : HandlerReturns(r)
    \/ DataFileChanges

SpecConcurrent == Init /\ [][ConcurrentNext]_vars

(* -------------------------------- app.js -------------------------------- *)

sPaddedBook == <<" ">> \o sBookQ \o <<" ">>
sFifty == <<"5", "0">>
sTen == <<"1", "0">>

\* what the user typed and chose: the search box and the constraint inputs
\* (the currency goes with the budget amount and takes no part in the ranking)
Forms ==
    {[searchInput |-> sBlank, budgetInput |-> <<>>, readingTimeInput |-> <<>>,
      skillLevelInput |-> ""],
     [searchInput |-> sPaddedBook, budgetInput |-> sFifty, readingTimeInput |-> sTen,
      skillLevelInput |-> "beginner"],
     [searchInput |-> sQuantum, budgetInput |-> <<>>, readingTimeInput |-> <<>>,
      skillLevelInput |-> ""]}

\* the options of the profile select the user switches between
ProfileOptions == {"student", "researcher", "casual"}

\* searchInput.value.trim()
getSearchInput(form) == trim(form.searchInput)

\* parseFloat of a string of digits, as the amount input holds: the value of
\* the digits
parseFloat(str) == parseInt(str)

\* getConstraints of app.js
getConstraints(form) ==
    [budget |-> trim(form.budgetInput) # <<>>,
     budgetAmount |->
         IF trim(form.budgetInput) # <<>> THEN parseFloat(trim(form.budgetInput))
         ELSE Null,
     readingTime |->
         IF form.readingTimeInput # <<>> THEN parseInt(form.readingTimeInput) ELSE Null,
     skillLevel |-> IF form.skillLevelInput # "" THEN form.skillLevelInput ELSE NullStr]

DigitChar(d) ==
    CASE d = 0 -> "0" [] d = 1 -> "1" [] d = 2 -> "2" [] d = 3 -> "3" [] d = 4 -> "4"
      [] d = 5 -> "5" [] d = 6 -> "6" [] d = 7 -> "7" [] d = 8 -> "8" [] d = 9 -> "9"

\* the decimal digits of a natural number
RECURSIVE Decimal(_)
Decimal(n) ==
    IF n < 10 THEN <<DigitChar(n)>> ELSE Decimal(n \div 10) \o <<DigitChar(n % 10)>>

\* the string URLSearchParams.append makes of a whole number
numberToString(a) == IF a.n < 0 THEN <<"-">> \o Decimal(-a.n) ELSE Decimal(a.n)

\* the query string handleSearch builds
searchParams(searchQuery, userProfile, constraints) ==
    Object([q |-> <<searchQuery>>,
            profile |-> <<userProfile>>,
            budget |->
                IF constraints.budget /\ Truthy(constraints.budgetAmount)
                THEN <<"true">> ELSE <<>>,
            readingTime |->
                IF Truthy(constraints.readingTime)
                THEN <<numberToString(constraints.readingTime)>> ELSE <<>>,
            skillLevel |->
                IF constraints.skillLevel # NullStr THEN <<constraints.skillLevel>>
                ELSE <<>>])

\* a ranked result as JSON carries it: a score that is NaN arrives as null
resultOverJson(result) ==
    [result EXCEPT !.score = IF IsNaN(result.score) THEN Null ELSE result.score]

\* the body of the answer of the server for a ranking, parsed by response.json()
dataOf(rankedResults, apiSource) ==
    [success |-> TRUE, error |-> "", totalResults |-> Len(rankedResults),
     results |-> [i \in 1..Len(rankedResults) |-> resultOverJson(rankedResults[i])],
     apiSource |-> apiSource]

\* the answer of GET /api/search to the query string, ranking these results
apiAnswer(params, results) ==
    [ok |-> TRUE, status |-> 200,
     data |-> dataOf(rankResults([query |-> params.q, profile |-> profileOf(params),
                                  constraints |-> parseConstraints(params),
                                  results |-> results]).value, "mock")]

\* what the server can answer with: the ranking of its static results, from
\* its data file or the defaults, or an error status
AnswerKinds == {"data file", "defaults", "error"}

\* the answer fetch resolves with
ApiResponse(params, kind) ==
    IF kind = "error"
    THEN [ok |-> FALSE, status |-> 500, data |-> failureData("Internal server error")]
    ELSE apiAnswer(params, IF kind = "data file" THEN fullResults ELSE getDefaultResults)

\* rankedResults.slice(0, 5), one card for each
displayResults(rankedResults) ==
    Container("results", SubSeq(rankedResults, 1, Min(5, Len(rankedResults))))

\* applyConstraintAdjustments of app.js
clientApplyConstraintAdjustments(result, constraints) ==
    LET maxAdjustment == Pct(15)
        budgetTerm ==
            IF constraints.budget
            THEN Mul(Prop(result, "price"), Mul(maxAdjustment, Pct(40)))
            ELSE Zero
        readingTerm ==
            IF Truthy(constraints.readingTime)
            THEN Add(IF Le(PropOr(result, "readingTime", R(15, 1)),
                           parseIntNum(constraints.readingTime))
                     THEN Mul(maxAdjustment, Pct(30))
                     ELSE Neg(Mul(maxAdjustment, Pct(20))),
                     Mul(Prop(result, "simplicity"), Mul(maxAdjustment, Pct(10))))
            ELSE Zero
        skillTerm ==
            IF constraints.skillLevel = "beginner"
            THEN Sub(Mul(Prop(result, "simplicity"), Mul(maxAdjustment, Pct(50))),
                     Mul(Prop(result, "depth"), Mul(maxAdjustment, Pct(10))))
            ELSE IF constraints.skillLevel = "intermediate"
            THEN Mul(Prop(result, "depth"), Mul(maxAdjustment, Pct(15)))
            ELSE IF constraints.skillLevel = "advanced"
            THEN Sub(Add(Mul(Prop(result, "depth"), Mul(maxAdjustment, Pct(30))),
                         Mul(Prop(result, "citations"), Mul(maxAdjustment, Pct(20)))),
                     Mul(Prop(result, "simplicity"), Mul(maxAdjustment, Pct(5))))
            ELSE Zero
    IN  MathMax(Neg(maxAdjustment),
                MathMin(maxAdjustment, Add(Add(budgetTerm, readingTerm), skillTerm)))

\* computePersonalizationScore of app.js
clientComputePersonalizationScore(result, profile, constraints) ==
    IF profile \notin DOMAIN profileWeights THEN Pct(50)
    ELSE MathMax(Zero,
                 MathMin(One, Add(normalizedProfileScoreOf(result, profile),
                                  clientApplyConstraintAdjustments(result, constraints))))

\* intentFilteredResults.map(result => ...) of rankAndDisplayResults
clientScoredResultsOf(results, profile, constraints, queryKeywords) ==
    [i \in 1..Len(results) |->
        scoredResultOf(results[i], profile, constraints, queryKeywords,
                       computeRelevanceScore(results[i], queryKeywords),
                       clientComputePersonalizationScore(results[i], profile,
                                                         constraints))]

\* the ranked results displayed without allRankedResults.slice(0, 3)
displayRankedUnsliced(intentFilteredResults, profile, constraints, queryKeywords) ==
    IF Len(intentFilteredResults) = 0 THEN Container("empty", <<>>)
    ELSE displayResults(sort(clientScoredResultsOf(intentFilteredResults, profile,
                                                   constraints, queryKeywords)))

\* rankAndDisplayResults once the intent filter has run: what it displays
displayRanked(intentFilteredResults, profile, constraints, queryKeywords) ==
    IF Len(intentFilteredResults) = 0 THEN Container("empty", <<>>)
    ELSE displayResults(SubSeq(sort(clientScoredResultsOf(intentFilteredResults, profile,
                                                          constraints, queryKeywords)),
                               1, Min(3, Len(intentFilteredResults))))

\* rankAndDisplayResults throws: results is undefined when the context has no
\* such field, and reading its length or calling its filter is a TypeError;
\* generateExplanations throws for a profile without weights
rankAndDisplayResultsThrows(searchContext) ==
    \/ ~Has(searchContext, "results")
    \/ /\ Len(filterByQueryIntent(searchContext.results, searchContext.query)) > 0
       /\ generateExplanationsThrows(searchContext.profile)

\* rankAndDisplayResults: the container after it returned
rankAndDisplayResults(searchContext) ==
    displayRanked(filterByQueryIntent(searchContext.results, searchContext.query),
                  searchContext.profile, searchContext.constraints,
                  extractKeywords(searchContext.query))

\* the object handleSearch stores in lastSearchContext (the timestamp left out)
contextOf(searchQuery, userProfile, constraints, data) ==
    [query |-> searchQuery, profile |-> userProfile, constraints |-> constraints,
     apiSource |-> data.apiSource]

\* what handleSearch shows for the parsed body of an answer with an OK status
shownForData(data) ==
    IF ~data.success THEN Container("error", <<>>)
    ELSE IF data.totalResults = 0 THEN Container("empty", <<>>)
    ELSE displayResults(data.results)

\* what handleSearch shows for an answer of the server
shownFor(ok, data) == IF ~ok THEN Container("error", <<>>) ELSE shownForData(data)

\* the invocation s of handleSearch is the one started last; it is started
\* while another one waits for its response or not
Started(s, searchQuery, constraints) ==
    [NoneStarted EXCEPT
        !.s = s, !.query = searchQuery, !.constraints = constraints,
        !.overlapped = \E t \in Searches : searches[t].pc = "awaitFetch"]

\* the invocation s of handleSearch ended: if it is the one started last, keep
\* whether it stored its context and what it showed
StartedHandled(s, stored, shown) ==
    lastStarted' =
        IF lastStarted.s = s /\ ~lastStarted.handled
        THEN [lastStarted EXCEPT !.handled = TRUE, !.stored = stored, !.shown = shown]
        ELSE lastStarted

\* handleSearch up to its fetch, with the form as the user left it
ClickSearch(s, form) ==
    /\ searches[s].pc = "idle"
    /\ IF getSearchInput(form) = <<>>
       THEN UNCHANGED <<searches, resultsContainer, lastStarted>>
       ELSE /\ lastStarted' = Started(s, getSearchInput(form), getConstraints(form))
            /\ searches' =
                  [searches EXCEPT
                      ![s] = [pc |-> "awaitFetch",
                              searchQuery |-> getSearchInput(form),
                              userProfile |-> profileSelect,
                              constraints |-> getConstraints(form),
                              data |-> NoData]]
            /\ resultsContainer' = Container("loading", <<>>)
    /\ uncaught' = ""
    /\ UNCHANGED <<profileSelect, lastSearchContext, nonClientVars>>

\* the server cannot be reached: fetch rejects, the catch block shows the error
SearchFetchRejects(s) ==
    /\ searches[s].pc = "awaitFetch"
    /\ searches' = [searches EXCEPT ![s] = NoSearch]
    /\ resultsContainer' = Container("error", <<>>)
    /\ StartedHandled(s, FALSE, Container("error", <<>>))
    /\ UNCHANGED <<profileSelect, lastSearchContext, uncaught, nonClientVars>>

\* handleSearch after its fetch: a status that is not OK throws, an OK one
\* reads the body
AfterSearchFetch(s, answer) ==
    IF answer.ok
    THEN /\ searches' = [searches EXCEPT ![s].pc = "awaitJson", ![s].data = answer.data]
         /\ UNCHANGED <<resultsContainer, lastStarted>>
    ELSE /\ searches' = [searches EXCEPT ![s] = NoSearch]
         /\ resultsContainer' = shownFor(FALSE, answer.data)
         /\ StartedHandled(s, FALSE, shownFor(FALSE, answer.data))

\* the server answers the request of the search
SearchFetchResolves(s, kind) ==
    /\ searches[s].pc = "awaitFetch"
    /\ AfterSearchFetch(s, ApiResponse(searchParams(searches[s].searchQuery,
                                                    searches[s].userProfile,
                                                    searches[s].constraints), kind))
    /\ UNCHANGED <<profileSelect, lastSearchContext, uncaught, nonClientVars>>

\* handleSearch from the parsed body to its end
SearchJsonResolves(s) ==
    /\ searches[s].pc = "awaitJson"
    /\ searches' = [searches EXCEPT ![s] = NoSearch]
    /\ lastSearchContext' =
          IF searches[s].data.success
          THEN contextOf(searches[s].searchQuery, searches[s].userProfile,
                         searches[s].constraints, searches[s].data)
          ELSE lastSearchContext
    /\ resultsContainer' = shownFor(TRUE, searches[s].data)
    /\ StartedHandled(s, searches[s].data.success, shownFor(TRUE, searches[s].data))
    /\ UNCHANGED <<profileSelect, uncaught, nonClientVars>>

\* handleProfileChange after lastSearchContext.profile = newProfile
ReRank(searchContext) ==
    /\ lastSearchContext' = searchContext
    /\ IF rankAndDisplayResultsThrows(searchContext)
       THEN uncaught' = "TypeError" /\ UNCHANGED resultsContainer
       ELSE uncaught' = "" /\ resultsContainer' = rankAndDisplayResults(searchContext)

\* the user selects another profile: the change event runs handleProfileChange
ChangeProfile(newProfile) ==
    /\ newProfile # profileSelect
    /\ profileSelect' = newProfile
    /\ IF lastSearchContext = NoContext \/ newProfile = lastSearchContext.profile
       THEN uncaught' = "" /\ UNCHANGED <<lastSearchContext, resultsContainer>>
       ELSE ReRank([lastSearchContext EXCEPT !.profile = newProfile])
    /\ UNCHANGED <<searches, lastStarted, nonClientVars>>

ClientInit ==
    /\ configured = FALSE
    /\ dataFile = "unreadable"
    /\ mockResults = NotLoaded
    /\ HandlersIdle
    /\ EngineIdle
    /\ NormalizerIdle
    /\ ClientIdle

ClientNext ==
    \/ \E s \in Searches, form \in Forms : ClickSearch(s, form)
    \/ \E s \in Searches : SearchFetchRejects(s)
    \/ \E s \in Searches, kind \in AnswerKinds : SearchFetchResolves(s, kind)
    \/ \E s \in Searches : SearchJsonResolves(s)
    \/ \E newProfile \in ProfileOptions : ChangeProfile(newProfile)

SpecClient == ClientInit /\ [][ClientNext]_vars

(* ------------------- direct calls of the ranking engine ---------------- *)

\* the arguments of the calls: every profile and one unknown one, every
\* combination of the constraints, queries with and without keywords
EngineQueries == {sEmpty, sShort, sBookQ, sHtmlBooks, sTutorialQ, sQuantum}
EngineProfiles == Profiles \cup {"guest"}
EngineConstraints ==
    [budget : BOOLEAN,
     readingTime : {Null, R(10, 1), R(30, 1)},
     skillLevel : {NullStr, "beginner", "intermediate", "advanced"}]
EngineResults == {fullResults \o <<dBare>>, mixedResults}

EngineCalls ==
    [query : EngineQueries, profile : EngineProfiles, constraints : EngineConstraints,
     results : EngineResults]

\* what a call of rankResults left
Ranked(r) == [done |-> TRUE, threw |-> r.threw, value |-> r.value]

NoCallMade == ~ranked.done /\ ~filtered.done /\ ~scored.done /\ ~adjusted.done

\* the constraints of a second call: those of the first, none, or all three
AgainConstraints ==
    {call.constraints, NoConstraints,
     [budget |-> TRUE, readingTime |-> R(10, 1), skillLevel |-> "beginner"]}

\* the outcome of the call and the array it was given, after the call
RankCallLeaves(outcome) ==
    /\ ranked' = Ranked(outcome)
    /\ candidates' = candidatesAfterRank(call, outcome)

\* rankResults(call)
RankCall ==
    /\ NoCallMade
    /\ RankCallLeaves(rankResults(call))
    /\ UNCHANGED <<nonEngineVars, call, filtered, scored, adjusted, again>>

\* what a second call of rankResults left
RankedAgain(profile, constraints, r) ==
    [done |-> TRUE, profile |-> profile, constraints |-> constraints,
     threw |-> r.threw, value |-> r.value]

\* rankResults once more for the same query and the same array, with a profile
\* and constraints that may differ
RankAgain(profile, constraints) ==
    /\ ranked.done /\ ~again.done
    /\ again' = RankedAgain(profile, constraints,
                            rankResults([query |-> call.query, profile |-> profile,
                                         constraints |-> constraints,
                                         results |-> candidates]))
    /\ UNCHANGED <<nonEngineVars, call, ranked, filtered, scored, adjusted, candidates>>

\* applyConstraintAdjustments(result, call.constraints) for each result of the call
AdjustCall ==
    /\ NoCallMade
    /\ adjusted' =
          [done |-> TRUE,
           value |-> [i \in 1..Len(call.results) |->
                         applyConstraintAdjustments(call.results[i], call.constraints)]]
    /\ UNCHANGED <<nonEngineVars, call, ranked, filtered, scored, candidates, again>>

\* filterByQueryIntent(call.results, call.query)
FilterCall ==
    /\ NoCallMade
    /\ filtered' = [done |-> TRUE, value |-> filterByQueryIntent(call.results, call.query)]
    /\ UNCHANGED <<nonEngineVars, call, ranked, scored, adjusted, candidates, again>>

\* scoreResult(result, call.profile, { query, constraints }) for each result of the call
ScoreCall ==
    /\ NoCallMade
    /\ scored' =
          [done |-> TRUE,
           value |-> [i \in 1..Len(call.results) |->
                         scoreResult(call.results[i], call.profile,
                                     [query |-> call.query,
                                      constraints |-> call.constraints])]]
    /\ UNCHANGED <<nonEngineVars, call, ranked, filtered, adjusted, candidates, again>>

\* what rankAndDisplayResults of app.js leaves on the page
DisplayCallLeaves(searchContext) ==
    IF rankAndDisplayResultsThrows(searchContext)
    THEN uncaught' = "TypeError" /\ UNCHANGED resultsContainer
    ELSE uncaught' = "" /\ resultsContainer' = rankAndDisplayResults(searchContext)

\* the page of a call of rankAndDisplayResults was written
Displayed == resultsContainer.state # "initial" \/ uncaught # ""

\* rankAndDisplayResults(call) of app.js, for the request rankResults was given
DisplayCall ==
    /\ ranked.done /\ ~Displayed
    /\ DisplayCallLeaves(call)
    /\ UNCHANGED <<serverVars, engineVars, normalizerVars, profileSelect,
                   lastSearchContext, searches, lastStarted>>

EngineInit ==
    /\ configured = FALSE
    /\ dataFile = "unreadable"
    /\ mockResults = NotLoaded
    /\ HandlersIdle
    /\ call \in EngineCalls
    /\ ranked = NotRanked
    /\ filtered = NotFiltered
    /\ scored = NotScored
    /\ adjusted = NotAdjusted
    /\ candidates = call.results
    /\ again = NotAgain
    /\ NormalizerIdle
    /\ ClientIdle

EngineNext == RankCall \/ FilterCall \/ ScoreCall \/ AdjustCall \/ DisplayCall

SpecEngine == EngineInit /\ [][EngineNext]_vars

(* ------------------- rankResults called twice in a row ----------------- *)

\* the first calls: queries with and without keywords, every profile and one
\* unknown one, no constraint, one, two and three constraints
TwiceQueries == {sShort, sBookQ, sTutorialQ}
TwiceConstraints ==
    {NoConstraints,
     [budget |-> TRUE, readingTime |-> Null, skillLevel |-> "beginner"],
     [budget |-> FALSE, readingTime |-> R(10, 1), skillLevel |-> "intermediate"],
     [budget |-> TRUE, readingTime |-> R(30, 1), skillLevel |-> "advanced"]}

TwiceCalls ==
    [query : TwiceQueries, profile : EngineProfiles, constraints : TwiceConstraints,
     results : EngineResults]

TwiceInit ==
    /\ configured = FALSE
    /\ dataFile = "unreadable"
    /\ mockResults = NotLoaded
    /\ HandlersIdle
    /\ call \in TwiceCalls
    /\ ranked = NotRanked
    /\ filtered = NotFiltered
    /\ scored = NotScored
    /\ adjusted = NotAdjusted
    /\ candidates = call.results
    /\ again = NotAgain
    /\ NormalizerIdle
    /\ ClientIdle

TwiceNext ==
    \/ RankCall
    \/ \E profile \in EngineProfiles, constraints \in AgainConstraints :
          RankAgain(profile, constraints)

SpecTwice == TwiceInit /\ [][TwiceNext]_vars

(* ------------------- direct calls of getReadingTimeScore --------------- *)

\* the reading times: every half minute from -2 to MaxMinutes
ReadingTimes == {R(k, 2) : k \in -4..(2 * MaxMinutes)}

\* getReadingTimeScore(timeCall)
ReadingTimeCall ==
    /\ ~timeScore.done
    /\ timeScore' = [done |-> TRUE, value |-> getReadingTimeScore(timeCall)]
    /\ UNCHANGED <<serverVars, engineVars, clientVars, timeCall>>

NormalizerInit ==
    /\ configured = FALSE
    /\ dataFile = "unreadable"
    /\ mockResults = NotLoaded
    /\ HandlersIdle
    /\ EngineIdle
    /\ timeCall \in ReadingTimes
    /\ timeScore = NoTimeScore
    /\ ClientIdle

NormalizerNext == ReadingTimeCall

SpecNormalizer == NormalizerInit /\ [][NormalizerNext]_vars

(* --------------------- queries of one to many words -------------------- *)

sHow == <<"H", "o", "w">>
sLearnUpper == <<"L", "E", "A", "R", "N">>
sHtml == <<"h", "t", "m", "l">>
sTo == <<"t", "o">>

\* the words the queries are made of: short and long ones, in either case
QueryWords == {sHow, sTo, sBookQ, sLearnUpper, sHtml}

\* what separates the words: a space, two spaces, a tab
Separators == {<<" ">>, <<" ", " ">>, <<"\t">>}

\* the lists of at most n words
RECURSIVE WordLists(_)
WordLists(n) ==
    IF n = 0 THEN {<<>>}
    ELSE WordLists(n - 1)
         \cup {Append(ws, w) : ws \in {l \in WordLists(n - 1) : Len(l) = n - 1},
                               w \in QueryWords}

\* lists with more than five words that pass the length filter
LongWordLists ==
    {<<sBookQ, sTo, sLearnUpper, sHtml, sCooking, sHow, sRecipe, sQuantum, sArticle>>,
     <<sHtml, sBookQ, sLearnUpper, sCooking, sRecipe, sQuantum>>,
     <<sTo, sLearnUpper, sHtml, sCooking, sTo, sRecipe, sBookQ>>}

\* the words with the separator between them
RECURSIVE Join(_, _)
Join(ws, sep) ==
    IF ws = <<>> THEN <<>>
    ELSE IF Len(ws) = 1 THEN ws[1]
    ELSE ws[1] \o sep \o Join(Tail(ws), sep)

\* the queries: the words joined, some with white space around them
KeywordQueries ==
    {Join(ws, sep) : ws \in WordLists(MaxWords) \cup LongWordLists, sep \in Separators}
    \cup {<<" ">> \o Join(ws, <<" ">>) \o <<" ", " ">> : ws \in LongWordLists}
    \cup {sBlank}

KeywordsInit ==
    /\ configured = FALSE
    /\ dataFile = "unreadable"
    /\ mockResults = NotLoaded
    /\ HandlersIdle
    /\ call \in [query : KeywordQueries, profile : {"casual"},
                 constraints : {NoConstraints}, results : {mixedResults}]
    /\ ranked = NotRanked
    /\ filtered = NotFiltered
    /\ scored = NotScored
    /\ adjusted = NotAdjusted
    /\ candidates = call.results
    /\ again = NotAgain
    /\ NormalizerIdle
    /\ ClientIdle

\* filterByQueryIntent is called, and calls extractKeywords on the query
KeywordsNext == FilterCall

SpecKeywords == KeywordsInit /\ [][KeywordsNext]_vars

(* ------------------------------ properties ----------------------------- *)

\* every metric of the result is present and the seven scores lie in [0, 1]
FullMetrics(result) ==
    \A m \in MetricKeys :
        Has(result, m) /\ (m # "readingTime" => InUnit(result[m]))

\* the result of the call with the id of the ranked result r
Original(r) == CHOOSE c \in {call.results[i] : i \in 1..Len(call.results)} : c.id = r.id

\* the position of the result with this id among the results of the call
PositionOf(id) == CHOOSE i \in 1..Len(call.results) : call.results[i].id = id

RankedOne == ranked.done /\ ~ranked.threw

\* C1: for every result with its metrics in [0, 1], each of the four profiles,
\* every combination of constraints and every query, the relevance score, the
\* personalization score and the score rankResults attaches lie in [0, 1]
ScoresInUnitInterval ==
    /\ \A i \in 1..Len(call.results) :
          FullMetrics(call.results[i]) /\ call.profile \in Profiles =>
              /\ InUnit(computeRelevanceScore(call.results[i], extractKeywords(call.query)))
              /\ InUnit(computePersonalizationScore(call.results[i], call.profile,
                                                    call.constraints))
    /\ RankedOne =>
          \A i \in 1..Len(ranked.value) :
              FullMetrics(Original(ranked.value[i])) => InUnit(ranked.value[i].score)

\* a ranking under all three constraints with a score strictly inside (0, 1)
\* and a personalization score the clamp had to raise to 0
ScoresInUnitIntervalWitness ==
    /\ RankedOne
    /\ call.constraints.budget
    /\ Truthy(call.constraints.readingTime)
    /\ call.constraints.skillLevel # NullStr
    /\ \E i \in 1..Len(ranked.value) :
          /\ FullMetrics(Original(ranked.value[i]))
          /\ Gt(ranked.value[i].score, Zero) /\ Lt(ranked.value[i].score, One)
    /\ \E i \in 1..Len(ranked.value) :
          /\ FullMetrics(Original(ranked.value[i]))
          /\ Lt(computePersonalizationScoreUnclamped(Original(ranked.value[i]),
                                                     call.profile, call.constraints), Zero)

\* the results the server ranks for the request of handler r
SearchResultsOf(r) ==
    IF Len(liveResults[r]) > 0 THEN liveResults[r] ELSE mockResults.value

\* C2: the list a successful response returns has at most 3 entries, exactly 3
\* when at least 3 results pass the intent filter
RankedSetHasAtMostThree ==
    \A r \in Slots :
        pc[r] = "responded" /\ response[r].success =>
            /\ Len(response[r].results) =
                  Min(3, Len(filterByQueryIntent(SearchResultsOf(r), locals[r].query)))
            /\ response[r].totalResults = Len(response[r].results)

\* every score of the ranking is a number
AllScoresNumbers == \A i \in 1..Len(ranked.value) : ~IsNaN(ranked.value[i].score)

WeightedSumOf(result) ==
    Add(Mul(R(7, 10),
            computeRelevanceScore(result, extractKeywords(call.query))),
        Mul(R(3, 10),
            computePersonalizationScore(result, call.profile, call.constraints)))

\* C4: the score rankResults attaches to a result is 0.7 x its relevance score
\* + 0.3 x its personalization score, and scoreResult returns that value too
FinalScoreIsWeightedSum ==
    /\ RankedOne =>
          \A i \in 1..Len(ranked.value) :
              ranked.value[i].score = WeightedSumOf(Original(ranked.value[i]))
    /\ scored.done =>
          \A i \in 1..Len(scored.value) :
              scored.value[i] = WeightedSumOf(call.results[i])

\* a ranking of several results whose two scores differ, under a constraint
FinalScoreIsWeightedSumWitness ==
    /\ RankedOne
    /\ Len(ranked.value) > 1
    /\ call.constraints.budget
    /\ \E i \in 1..Len(ranked.value) :
          LET result == Original(ranked.value[i])
          IN  /\ ~IsNaN(ranked.value[i].score)
              /\ computeRelevanceScore(result, extractKeywords(call.query))
                    # computePersonalizationScore(result, call.profile, call.constraints)

\* the labels of a result: its category, if it has one, and its tags, lower-cased
LabelsOf(result) ==
    (IF HasCategory(result) THEN {toLowerCase(result.category)} ELSE {})
    \cup (IF Has(result, "tags")
          THEN {toLowerCase(result.tags[i]) : i \in 1..Len(result.tags)} ELSE {})

\* some keyword and some label of the result contain one another
IntentMatches(result, keywords) ==
    \E i \in 1..Len(keywords), label \in LabelsOf(result) :
        includes(label, keywords[i]) \/ includes(keywords[i], label)

\* C5: with at least one keyword, filterByQueryIntent returns, in input order,
\* exactly the results one of whose labels and one keyword contain one another
IntentFilterAdmitsExactlyMatches ==
    filtered.done /\ Len(extractKeywords(call.query)) > 0 =>
        filtered.value =
            SelectSeq(call.results,
                      LAMBDA result : IntentMatches(result, extractKeywords(call.query)))

\* every whitespace-separated token of the query has at most 3 characters
OnlyShortTokens(query) == \A i \in 1..Len(split(query)) : Len(split(query)[i]) <= 3

\* C6: when every token of the query has at most 3 characters, extractKeywords
\* returns the empty sequence, filterByQueryIntent returns the list unchanged
\* and rankResults scores every result
ShortQueryAdmitsAll ==
    OnlyShortTokens(call.query) =>
        /\ extractKeywords(call.query) = <<>>
        /\ filtered.done => filtered.value = call.results
        /\ RankedOne =>
              /\ Len(ranked.value) = Len(call.results)
              /\ {ranked.value[i].id : i \in 1..Len(ranked.value)}
                    = {call.results[i].id : i \in 1..Len(call.results)}

\* the list filtered by a query of short words only
ShortQueryAdmitsAllWitness ==
    /\ filtered.done
    /\ call.query # <<>>
    /\ OnlyShortTokens(call.query)
    /\ Len(filtered.value) > 5

\* the query of the request of handler r is missing, empty or whitespace only
QueryAbsent(r) ==
    LET key == IF request[r].method = "GET" THEN "q" ELSE "query"
    IN  \/ ~Has(request[r].params, key)
        \/ \A i \in 1..Len(request[r].params[key]) : IsSpace(request[r].params[key][i])

\* the request names a profile that is not one of the four
ProfileUnknown(r) ==
    /\ Has(request[r].params, "profile")
    /\ request[r].params.profile # ""
    /\ request[r].params.profile \notin Profiles

\* C7: a request without a query, or with an unknown profile, is answered with
\* an error (naming the valid profiles for a bad profile) and neither the
\* provider nor the ranking engine is invoked for it
InvalidRequestRejected ==
    \A r \in Slots :
        request[r].method # "none" /\ (QueryAbsent(r) \/ ProfileUnknown(r)) =>
            /\ ~bingInvoked[r]
            /\ ~rankInvoked[r]
            /\ pc[r] = "responded"
            /\ ~response[r].success
            /\ response[r].status = 400
            /\ response[r].results = <<>>
            /\ ~QueryAbsent(r) =>
                  response[r].valid = <<"student", "shopper", "researcher", "casual">>

\* a request with a whitespace-only query has been answered
InvalidRequestRejectedWitness ==
    \E r \in Slots :
        /\ pc[r] = "responded"
        /\ Has(request[r].params, "q")
        /\ request[r].params.q # <<>>
        /\ QueryAbsent(r)
        /\ response[r].status = 400

\* the skill level the request of handler r names
SkillLevelOf(r) ==
    IF request[r].method = "GET"
    THEN (IF Has(request[r].params, "skillLevel") THEN request[r].params.skillLevel
          ELSE "")
    ELSE (IF Has(request[r].params, "constraints")
          THEN request[r].params.constraints.skillLevel ELSE NullStr)

\* the request names a skill level that is not one of the three
SkillLevelUnknown(r) ==
    SkillLevelOf(r) \notin {"", NullStr, "beginner", "intermediate", "advanced"}

\* C8: a request with an unknown skill level is rejected before ranking runs
\* and gets no ranked results
UnknownSkillLevelRejected ==
    \A r \in Slots :
        request[r].method # "none" /\ SkillLevelUnknown(r) =>
            /\ ~rankInvoked[r]
            /\ pc[r] = "responded" =>
                  ~response[r].success /\ response[r].results = <<>>

\* the provider call of the request of handler r failed
ProviderFailed(r) ==
    settled[r] \in {"no credentials", "fetch failed", "not ok", "bad body"}

\* C9: when the provider call fails, a valid request is answered successfully
\* with the static results ranked; the failure is never an error response
ProviderFailureFallsBack ==
    \A r \in Slots :
        pc[r] = "responded" /\ ProviderFailed(r) =>
            /\ response[r].success
            /\ response[r].status = 200
            /\ response[r].apiSource = "mock"
            /\ mockResults.loaded
            /\ response[r].results =
                  rankResults([query |-> locals[r].query, profile |-> locals[r].profile,
                               constraints |-> locals[r].constraints,
                               results |-> mockResults.value]).value
            /\ response[r].totalResults = Len(response[r].results)

\* a request answered with ranked static results after the fetch was rejected
ProviderFailureFallsBackWitness ==
    \E r \in Slots :
        /\ pc[r] = "responded"
        /\ settled[r] = "fetch failed"
        /\ response[r].success
        /\ Len(response[r].results) > 1

\* C10: every valid request eventually receives a response, also when the
\* provider never answers
EveryRequestAnswered == (pc[1] = "awaitFetch") ~> (pc[1] = "responded")

\* the result with 0 for every numeric metric it lacks and 15 for a missing readingTime
WithDefaults(result) ==
    [k \in DOMAIN result \cup MetricKeys |->
        IF Has(result, k) THEN result[k]
        ELSE IF k = "readingTime" THEN R(15, 1) ELSE Zero]

\* the result lacks one of its optional metrics
LacksMetric(result) == \E m \in MetricKeys : ~Has(result, m)

\* C11: a result that lacks optional metrics is scored as if each missing
\* numeric metric were 0 and a missing readingTime 15: for each of the four
\* profiles and every combination of constraints its relevance and
\* personalization scores and the score rankResults attaches are numbers of [0, 1]
MissingMetricsTakeDefaults ==
    call.profile \in Profiles =>
        /\ \A i \in 1..Len(call.results) :
              LacksMetric(call.results[i]) =>
                  /\ InUnit(computeRelevanceScore(call.results[i],
                                                  extractKeywords(call.query)))
                  /\ InUnit(computePersonalizationScore(call.results[i], call.profile,
                                                        call.constraints))
                  /\ computePersonalizationScore(call.results[i], call.profile,
                                                 call.constraints)
                        = computePersonalizationScore(WithDefaults(call.results[i]),
                                                      call.profile, call.constraints)
        /\ RankedOne =>
              \A i \in 1..Len(ranked.value) :
                  LacksMetric(Original(ranked.value[i])) => InUnit(ranked.value[i].score)

\* C12: rankResults called with a profile that is not one of the four does not
\* fail: it returns every result that passes the intent filter, each scored
\* with the neutral personalization score 0.5 and carrying its explanations
UnknownProfileRanksNeutral ==
    ranked.done /\ call.profile \notin Profiles =>
        /\ ~ranked.threw
        /\ Len(ranked.value) = Len(filterByQueryIntent(call.results, call.query))
        /\ \A i \in 1..Len(ranked.value) :
              /\ ranked.value[i].score =
                    Add(Mul(R(7, 10),
                            computeRelevanceScore(Original(ranked.value[i]),
                                                  extractKeywords(call.query))),
                        Mul(R(3, 10), R(1, 2)))
              /\ Len(ranked.value[i].explanations) >= 1

\* the kinds of the explanation lines of a ranked result
LineKinds(r) == {r.explanations[j].line : j \in 1..Len(r.explanations)}

\* the lines of a ranked result that speak of a constraint are lines of
\* constraints that are active and that the result meets
ConstraintLinesMet(r, result, constraints) ==
    /\ "readingTime" \in LineKinds(r) =>
          /\ Truthy(constraints.readingTime)
          /\ Has(result, "readingTime")
          /\ Le(result.readingTime, constraints.readingTime)
    /\ "budget" \in LineKinds(r) =>
          constraints.budget /\ Gt(Prop(result, "price"), R(6, 10))
    /\ "beginner" \in LineKinds(r) =>
          constraints.skillLevel = "beginner" /\ Gt(Prop(result, "simplicity"), R(6, 10))
    /\ "intermediate" \in LineKinds(r) =>
          constraints.skillLevel = "intermediate" /\ Gt(Prop(result, "depth"), R(4, 10))
    /\ "advanced" \in LineKinds(r) =>
          constraints.skillLevel = "advanced" /\ Gt(Prop(result, "depth"), R(6, 10))

\* C14: every result rankResults returns carries at least one explanation, and
\* a reading-time, budget or skill-level line is there only when that
\* constraint is active and the result meets it
ExplanationsOnlyWhenMet ==
    RankedOne =>
        \A i \in 1..Len(ranked.value) :
            /\ Len(ranked.value[i].explanations) >= 1
            /\ ConstraintLinesMet(ranked.value[i], Original(ranked.value[i]),
                                  call.constraints)

\* a ranking under all three constraints in which one result carries the three
\* constraint lines and another only the fallback line
ExplanationsOnlyWhenMetWitness ==
    /\ RankedOne
    /\ call.constraints.budget
    /\ \E i \in 1..Len(ranked.value) :
          {"readingTime", "budget", "advanced"} \subseteq LineKinds(ranked.value[i])
    /\ \E i \in 1..Len(ranked.value) :
          /\ LineKinds(ranked.value[i]) = {"best available"}
          /\ Gt(call.constraints.readingTime, Zero)
          /\ Lt(call.constraints.readingTime, Original(ranked.value[i]).readingTime)

\* none of the three constraints is active
NoConstraintActive(constraints) ==
    /\ ~constraints.budget
    /\ ~Truthy(constraints.readingTime)
    /\ constraints.skillLevel = NullStr

\* C15: for a result with its metrics in [0, 1] and every combination of
\* budget, reading-time ceiling and skill level, applyConstraintAdjustments
\* returns a number of [-0.25, +0.15], and 0 when no constraint is active
ConstraintAdjustmentBounded ==
    adjusted.done =>
        \A i \in 1..Len(adjusted.value) :
            FullMetrics(call.results[i]) =>
                /\ Le(R(-25, 100), adjusted.value[i])
                /\ Le(adjusted.value[i], R(15, 100))
                /\ NoConstraintActive(call.constraints) => adjusted.value[i] = Zero

\* adjustments under three active constraints: one result at the lower limit
\* and one with a bonus
ConstraintAdjustmentBoundedWitness ==
    /\ adjusted.done
    /\ call.constraints.budget
    /\ Truthy(call.constraints.readingTime)
    /\ call.constraints.skillLevel = "beginner"
    /\ \E i \in 1..Len(adjusted.value) :
          FullMetrics(call.results[i]) /\ adjusted.value[i] = R(-25, 100)
    /\ \E i \in 1..Len(adjusted.value) :
          FullMetrics(call.results[i]) /\ Gt(adjusted.value[i], Zero)

\* the ids of the results of a list
IdsOf(results) == {results[i].id : i \in 1..Len(results)}

\* C16: for a fixed query and list of results, rankResults returns the same
\* set of results under each of the four profiles and every constraints
\* value: the results that pass the intent filter of the query
ConstraintsNeverRemove ==
    again.done /\ call.profile \in Profiles /\ again.profile \in Profiles =>
        /\ ~ranked.threw /\ ~again.threw
        /\ Len(again.value) = Len(ranked.value)
        /\ IdsOf(again.value) = IdsOf(ranked.value)
        /\ IdsOf(ranked.value) = IdsOf(filterByQueryIntent(call.results, call.query))
        /\ Len(ranked.value) = Len(filterByQueryIntent(call.results, call.query))

\* two rankings of the same results under different profiles and constraints,
\* the second under a budget constraint, that order the results differently
ConstraintsNeverRemoveWitness ==
    /\ again.done
    /\ call.profile \in Profiles /\ again.profile \in Profiles
    /\ call.profile # again.profile
    /\ ~call.constraints.budget /\ again.constraints.budget
    /\ Len(ranked.value) > 3
    /\ \E i \in 1..Len(ranked.value) : ranked.value[i].id # again.value[i].id
    /\ \E i \in 1..Len(again.value) : Lt(Prop(Original(again.value[i]), "price"), R(1, 2))

\* the second call was given the query, profile and constraints of the first
SameArguments ==
    again.done /\ again.profile = call.profile /\ again.constraints = call.constraints

ReadingTimeScorePiecewise ==
    timeScore.done =>
        /\ Le(timeCall, R(5, 1)) => timeScore.value = R(1, 1)
        /\ Ge(timeCall, R(60, 1)) => timeScore.value = R(0, 1)
        /\ Gt(timeCall, R(5, 1)) /\ Lt(timeCall, R(60, 1)) =>
              timeScore.value = Sub(R(1, 1), Div(Sub(timeCall, R(5, 1)), R(55, 1)))
        /\ timeCall = R(65, 2) => timeScore.value = R(1, 2)
        /\ \A t2 \in ReadingTimes :
              Lt(timeCall, t2) => Ge(timeScore.value, getReadingTimeScore(t2))

\* the score of 32.5 minutes
ReadingTimeScorePiecewiseWitness ==
    timeScore.done /\ timeCall = R(65, 2) /\ timeScore.value = R(1, 2)

\* C19: once getMockResults has loaded the static results, no step of any
\* handler, in any interleaving of the requests and whatever happens to the
\* data file, loads them again or changes the list or one of its items;
\* rankResults leaves the list it is given as it was
CorpusLoadedOnce == [][mockResults.loaded => mockResults' = mockResults]_vars

\* two requests in progress at once both answered from the static results,
\* after the data file changed since it was loaded
CorpusLoadedOnceWitness ==
    /\ mockResults.loaded
    /\ mockResults.value # readDataFile
    /\ \E r1, r2 \in Slots :
          /\ r1 # r2
          /\ pc[r1] = "responded" /\ response[r1].apiSource = "mock"
          /\ pc[r2] = "responded" /\ response[r2].apiSource = "mock"
          /\ Len(response[r1].results) > 1
          /\ locals[r1].query # locals[r2].query

\* C13: no event listener of the page ends with an error, and whenever results
\* are shown after a search succeeded they are ranked for the profile of
\* lastSearchContext, which every profile change sets to the profile selected
ProfileChangeReranks ==
    /\ uncaught = ""
    /\ lastSearchContext # NoContext /\ resultsContainer.state = "results" =>
          \A i \in 1..Len(resultsContainer.cards) :
              resultsContainer.cards[i].profile = lastSearchContext.profile

\* the arguments the handler r passed to rankResults
RankRequestOf(r) ==
    [query |-> locals[r].query, profile |-> locals[r].profile,
     constraints |-> locals[r].constraints, results |-> SearchResultsOf(r)]

\* the handler r ranked results none of which passes the intent filter of its query
NothingMatches(r) ==
    /\ pc[r] = "responded"
    /\ rankInvoked[r]
    /\ filterByQueryIntent(SearchResultsOf(r), locals[r].query) = <<>>

\* what the page shows for the response of handler r
ShownForResponseOf(r) ==
    shownFor(response[r].status \in 200..299,
             IF response[r].success
             THEN dataOf(response[r].results, response[r].apiSource)
             ELSE failureData(response[r].error))

\* C17: when no result passes the intent filter, rankResults returns the empty
\* list and the server answers 200 with success true, totalResults 0 and no
\* results, for which the page shows its empty state; an answer with success
\* false has status 400 or 500 and the page shows its error state for it
EmptyRankingIsSuccess ==
    \A r \in Slots :
        /\ NothingMatches(r) =>
              /\ rankResults(RankRequestOf(r)) = Returned(<<>>)
              /\ response[r].success
              /\ response[r].status = 200
              /\ response[r].totalResults = 0
              /\ response[r].results = <<>>
              /\ ShownForResponseOf(r) = Container("empty", <<>>)
        /\ pc[r] = "responded" /\ ~response[r].success =>
              /\ response[r].status \in {400, 500}
              /\ ShownForResponseOf(r) = Container("error", <<>>)

\* a request whose query has a keyword that no static result matches has been
\* answered
EmptyRankingIsSuccessWitness ==
    \E r \in Slots :
        /\ NothingMatches(r)
        /\ Len(extractKeywords(locals[r].query)) > 0
        /\ Len(SearchResultsOf(r)) > 0
        /\ response[r].apiSource = "mock"

\* the words of the query: the longest pieces without white space, each by
\* the positions of its first and last character
WordsOf(query) ==
    {w \in (1..Len(query)) \X (1..Len(query)) :
        /\ w[1] <= w[2]
        /\ \A k \in w[1]..w[2] : ~IsSpace(query[k])
        /\ w[1] = 1 \/ IsSpace(query[w[1] - 1])
        /\ w[2] = Len(query) \/ IsSpace(query[w[2] + 1])}

\* those of more than 3 characters
LongWordsOf(query) == {w \in WordsOf(query) : w[2] - w[1] + 1 > 3}

UpperLetters ==
    {"A", "B", "C", "D", "E", "F", "G", "H", "I", "J", "K", "L", "M", "N", "O", "P",
     "Q", "R", "S", "T", "U", "V", "W", "X", "Y", "Z"}

\* the n-th keyword is the n-th long word of the query, lower-cased
IsNthLongWord(keyword, n, query) ==
    \E w \in LongWordsOf(query) :
        /\ Cardinality({v \in LongWordsOf(query) : v[1] < w[1]}) = n - 1
        /\ Len(keyword) = w[2] - w[1] + 1
        /\ \A k \in 1..Len(keyword) :
              /\ keyword[k] \notin UpperLetters
              /\ keyword[k] = LowerChar(query[w[1] + k - 1])

\* C21: extractKeywords returns the first 5 words of the query that have more
\* than 3 characters, lower-cased and in the order of the query, and the empty
\* sequence for an empty query
KeywordsAreFirstFiveLongWords ==
    /\ Len(extractKeywords(call.query)) = Min(5, Cardinality(LongWordsOf(call.query)))
    /\ \A n \in 1..Len(extractKeywords(call.query)) :
          IsNthLongWord(extractKeywords(call.query)[n], n, call.query)
    /\ extractKeywords(<<>>) = <<>>

\* the filter ran on a query with more than five long words, short words
\* between them and capital letters
KeywordsAreFirstFiveLongWordsWitness ==
    /\ filtered.done
    /\ Cardinality(LongWordsOf(call.query)) > 5
    /\ Cardinality(WordsOf(call.query)) > Cardinality(LongWordsOf(call.query))
    /\ \E k \in 1..Len(call.query) : call.query[k] \in UpperLetters
    /\ IsSpace(call.query[1])


\* the result with another reading time
WithReadingTime(result, minutes) ==
    [k \in DOMAIN result \cup {"readingTime"} |->
        IF k = "readingTime" THEN minutes ELSE result[k]]

\* the reading times compared, in minutes
ReadingTimeChoices == {R(5, 1), R(20, 1), R(60, 1)}

\* C22: for the profiles student and casual, of two results that differ in
\* their reading time only, the one with the shorter reading time never gets
\* the lower personalization score, under any constraints
ShorterReadsNeverScoreLower ==
    call.profile \in {"student", "casual"} =>
        \A i \in 1..Len(call.results) :
            \A shorter, longer \in ReadingTimeChoices :
                Lt(shorter, longer) =>
                    ~Lt(computePersonalizationScore(
                            WithReadingTime(call.results[i], shorter),
                            call.profile, call.constraints),
                        computePersonalizationScore(
                            WithReadingTime(call.results[i], longer),
                            call.profile, call.constraints))


\* C23: a successful response names bing as its source exactly when the results
\* ranked for it are those the provider returned, and mock when the static
\* results were ranked, also after the provider answered without any item
ApiSourceNamesRankedData ==
    \A r \in Slots :
        pc[r] = "responded" /\ response[r].success =>
            /\ response[r].apiSource = "bing" <=> SearchResultsOf(r) = liveResults[r]
            /\ response[r].apiSource = "mock" <=> Len(liveResults[r]) = 0


\* some tag of the result and some keyword contain one another
TagMatches(result, keywords) ==
    /\ Has(result, "tags")
    /\ \E i \in 1..Len(result.tags), j \in 1..Len(keywords) :
          \/ includes(toLowerCase(result.tags[i]), keywords[j])
          \/ includes(keywords[j], toLowerCase(result.tags[i]))

\* C24: when the query has a keyword, filterByQueryIntent rejects every result
\* that has no category and none of whose tags matches a keyword
NoCategoryNeedsTagMatch ==
    filtered.done /\ Len(extractKeywords(call.query)) > 0 =>
        \A i \in 1..Len(call.results) :
            /\ ~HasCategory(call.results[i])
            /\ ~TagMatches(call.results[i], extractKeywords(call.query))
            => call.results[i].id \notin IdsOf(filtered.value)


\* the budget term of the adjustment: (1 - price) x (-0.25) x 0.8
BudgetTerm(result) == Mul(Sub(One, result.price), R(-1, 5))

\* the term of a reading-time ceiling of M minutes: 0.15 x 0.4 within the
\* ceiling, else min(1, (t - M) / M) x (-0.25) x 0.5; simplicity x 0.15 x 0.15 added
ReadingTerm(result, M) ==
    Add(IF Le(result.readingTime, M) THEN R(3, 50)
        ELSE IF Ge(Div(Sub(result.readingTime, M), M), One) THEN R(-1, 8)
        ELSE Mul(Div(Sub(result.readingTime, M), M), R(-1, 8)),
        Mul(result.simplicity, R(9, 400)))

\* the term of the skill level
SkillTerm(result, skillLevel) ==
    CASE skillLevel = "beginner" ->
            Add(Mul(result.simplicity, R(9, 100)), Mul(result.depth, R(-1, 8)))
      [] skillLevel = "intermediate" ->
            Mul(IF Ge(result.depth, R(3, 10)) THEN result.depth ELSE R(3, 10), R(3, 100))
      [] skillLevel = "advanced" ->
            Add(Add(Mul(result.depth, R(3, 50)), Mul(result.citations, R(9, 200))),
                Mul(Sub(One, result.depth), R(-1, 40)))
      [] OTHER -> Zero

\* the sum of the terms of the active constraints
SumOfActiveTerms(result, constraints) ==
    Add(Add(IF constraints.budget THEN BudgetTerm(result) ELSE Zero,
            IF Truthy(constraints.readingTime)
            THEN ReadingTerm(result, constraints.readingTime) ELSE Zero),
        SkillTerm(result, constraints.skillLevel))

\* x limited to [-0.25, +0.15]
ClampedAdjustment(x) ==
    IF Lt(x, R(-1, 4)) THEN R(-1, 4) ELSE IF Gt(x, R(3, 20)) THEN R(3, 20) ELSE x

\* C26: for a result with its metrics present and a whole-minute ceiling,
\* applyConstraintAdjustments returns the sum of the budget, reading-time and
\* skill-level terms of the active constraints, limited to [-0.25, +0.15]
AdjustmentIsClampedSumOfTerms ==
    adjusted.done =>
        \A i \in 1..Len(adjusted.value) :
            FullMetrics(call.results[i]) =>
                adjusted.value[i] =
                    ClampedAdjustment(SumOfActiveTerms(call.results[i], call.constraints))

\* adjustments under budget, a ceiling and the advanced level: one for a
\* result over the ceiling by less than the ceiling, one at the lower limit
\* and one that no limit cut
AdjustmentIsClampedSumOfTermsWitness ==
    /\ adjusted.done
    /\ call.constraints.budget
    /\ Truthy(call.constraints.readingTime)
    /\ call.constraints.skillLevel = "advanced"
    /\ \E i \in 1..Len(adjusted.value) :
          /\ FullMetrics(call.results[i])
          /\ Gt(call.results[i].readingTime, call.constraints.readingTime)
          /\ Lt(call.results[i].readingTime,
                Mul(R(2, 1), call.constraints.readingTime))
    /\ \E i \in 1..Len(adjusted.value) :
          /\ FullMetrics(call.results[i])
          /\ Lt(SumOfActiveTerms(call.results[i], call.constraints), R(-1, 4))
    /\ \E i \in 1..Len(adjusted.value) :
          /\ FullMetrics(call.results[i])
          /\ adjusted.value[i] # Zero
          /\ adjusted.value[i] = SumOfActiveTerms(call.results[i], call.constraints)


\* metric x weight of the profile, 0 for a weight of 0; the reading time
\* counts by its normalized score
WeightedMetric(result, profile, m) ==
    IF profileWeights[profile][m] = Zero THEN Zero
    ELSE Mul(IF m = "readingTime" THEN getReadingTimeScore(result.readingTime)
             ELSE result[m],
             profileWeights[profile][m])

\* |weight| of the profile for the metric
AbsWeight(profile, m) ==
    IF Lt(profileWeights[profile][m], Zero) THEN Neg(profileWeights[profile][m])
    ELSE profileWeights[profile][m]

\* the sum of metric x weight over the seven metrics other than relevance
\* divided by the sum of |weight| over them
NormalizedWeightedSum(result, profile) ==
    Div(Add(Add(Add(WeightedMetric(result, profile, "simplicity"),
                    WeightedMetric(result, profile, "price")),
                Add(WeightedMetric(result, profile, "reviews"),
                    WeightedMetric(result, profile, "citations"))),
            Add(Add(WeightedMetric(result, profile, "depth"),
                    WeightedMetric(result, profile, "recency")),
                WeightedMetric(result, profile, "readingTime"))),
        Add(Add(Add(AbsWeight(profile, "simplicity"), AbsWeight(profile, "price")),
                Add(AbsWeight(profile, "reviews"), AbsWeight(profile, "citations"))),
            Add(Add(AbsWeight(profile, "depth"), AbsWeight(profile, "recency")),
                AbsWeight(profile, "readingTime"))))

\* x limited to [0, 1]
ClampedToUnit(x) == IF Lt(x, Zero) THEN Zero ELSE IF Gt(x, One) THEN One ELSE x

\* C27: for each of the four profiles and a result with its metrics present,
\* computePersonalizationScore is the normalized weighted sum of the seven
\* metrics other than relevance plus the constraint adjustment, limited to
\* [0, 1]; with no constraint active it is the limited normalized sum alone
PersonalizationIsNormalizedSum ==
    call.profile \in Profiles =>
        \A i \in 1..Len(call.results) :
            FullMetrics(call.results[i]) =>
                /\ computePersonalizationScore(call.results[i], call.profile,
                                               call.constraints)
                      = ClampedToUnit(
                            Add(NormalizedWeightedSum(call.results[i], call.profile),
                                applyConstraintAdjustments(call.results[i],
                                                           call.constraints)))
                /\ NoConstraintActive(call.constraints) =>
                      computePersonalizationScore(call.results[i], call.profile,
                                                  call.constraints)
                          = ClampedToUnit(NormalizedWeightedSum(call.results[i],
                                                                call.profile))

\* results scored for the student profile, whose reading-time weight is
\* negative, under a constraint: one whose sum the limit at 0 raised, one
\* whose score is inside (0, 1)
PersonalizationIsNormalizedSumWitness ==
    /\ scored.done
    /\ call.profile = "student"
    /\ call.constraints.budget
    /\ \E i \in 1..Len(call.results) :
          /\ FullMetrics(call.results[i])
          /\ Lt(Add(NormalizedWeightedSum(call.results[i], call.profile),
                    applyConstraintAdjustments(call.results[i], call.constraints)),
                Zero)
    /\ \E i \in 1..Len(call.results) :
          /\ FullMetrics(call.results[i])
          /\ Gt(computePersonalizationScore(call.results[i], call.profile,
                                            call.constraints), Zero)
          /\ WeightedMetric(call.results[i], call.profile, "readingTime") # Zero


\* the category of the result and some keyword contain one another
CategoryMatches(result, keywords) ==
    \E j \in 1..Len(keywords) :
        \/ includes(toLowerCase(result.category), keywords[j])
        \/ includes(keywords[j], toLowerCase(result.category))

\* the tags of the result that contain a keyword or are contained in one, by position
MatchingTagPositions(result, keywords) ==
    {i \in 1..Len(result.tags) :
        \E j \in 1..Len(keywords) :
            \/ includes(toLowerCase(result.tags[i]), keywords[j])
            \/ includes(keywords[j], toLowerCase(result.tags[i]))}

\* the category weight and the tag weight are active
CategoryActive(result, keywords) == HasCategory(result) /\ keywords # <<>>
TagsActive(result, keywords) == Has(result, "tags") /\ keywords # <<>>

\* 0.6 x relevance + 0.25 for a category match + 0.15 x the ratio of matching
\* tags, over the sum of the active weights
RelevanceQuotient(result, keywords) ==
    Div(Add(Add(Mul(R(3, 5), PropOr(result, "relevance", Zero)),
                IF CategoryActive(result, keywords) /\ CategoryMatches(result, keywords)
                THEN R(1, 4) ELSE Zero),
            IF TagsActive(result, keywords) /\ result.tags # <<>>
            THEN Mul(R(3, 20),
                     R(Cardinality(MatchingTagPositions(result, keywords)),
                       Len(result.tags)))
            ELSE Zero),
        Add(Add(R(3, 5), IF CategoryActive(result, keywords) THEN R(1, 4) ELSE Zero),
            IF TagsActive(result, keywords) THEN R(3, 20) ELSE Zero))

\* C28: computeRelevanceScore is (0.6 x relevance + 0.25 for a category match
\* + 0.15 x matching-tag ratio) / (sum of the active weights), limited to
\* [0, 1]; with no keyword it is the relevance of the result
RelevanceIsWeightedQuotient ==
    \A i \in 1..Len(call.results) :
        /\ computeRelevanceScore(call.results[i], extractKeywords(call.query))
              = ClampedToUnit(RelevanceQuotient(call.results[i],
                                                extractKeywords(call.query)))
        /\ computeRelevanceScore(call.results[i], <<>>)
              = PropOr(call.results[i], "relevance", Zero)

\* results scored for a query with keywords: one whose category matches, one
\* whose category does not while a tag does, one without a category, and one
\* that matches in nothing
RelevanceIsWeightedQuotientWitness ==
    /\ scored.done
    /\ extractKeywords(call.query) # <<>>
    /\ \E i \in 1..Len(call.results) :
          /\ HasCategory(call.results[i])
          /\ CategoryMatches(call.results[i], extractKeywords(call.query))
    /\ \E i \in 1..Len(call.results) :
          /\ HasCategory(call.results[i]) /\ Has(call.results[i], "tags")
          /\ ~CategoryMatches(call.results[i], extractKeywords(call.query))
          /\ MatchingTagPositions(call.results[i], extractKeywords(call.query)) # {}
    /\ \E i \in 1..Len(call.results) : ~HasCategory(call.results[i])
    /\ \E i \in 1..Len(call.results) :
          /\ HasCategory(call.results[i]) /\ Has(call.results[i], "tags")
          /\ ~CategoryMatches(call.results[i], extractKeywords(call.query))
          /\ MatchingTagPositions(call.results[i], extractKeywords(call.query)) = {}


\* the place of a line in the order generateExplanations pushes the lines in;
\* the three skill-level lines exclude each other and share a place
PlaceOfLine(kind) ==
    CASE kind = "category" -> 1
      [] kind = "tags" -> 2
      [] kind = "relevance" -> 3
      [] kind = "readingTime" -> 4
      [] kind = "budget" -> 5
      [] kind \in {"beginner", "intermediate", "advanced"} -> 6
      [] kind = "profile" -> 7
      [] OTHER -> 8

\* the two generic lines
FallbackLines == {"relevant match", "best available"}

\* the lines stand in the order of their places, each place at most once
LinesInOrder(explanations) ==
    \A j \in 1..Len(explanations), k \in 1..Len(explanations) :
        j < k => PlaceOfLine(explanations[j].line) < PlaceOfLine(explanations[k].line)

\* the list that generateExplanations may return for a result of that relevance score
ExplanationsWellFormed(explanations, relevanceScore) ==
    /\ LinesInOrder(explanations)
    /\ \A j \in 1..Len(explanations) :
          /\ explanations[j].line = "relevance" => Ge(relevanceScore, R(6, 10))
          /\ explanations[j].line = "profile" =>
                Len(explanations[j].factors) \in 1..2
          /\ explanations[j].line \in FallbackLines => Len(explanations) = 1

\* C29: the explanations of every ranked result are, in this order, the
\* category line, the tag line, the high-relevance line (only with a relevance
\* score of at least 0.6), the reading-time line, the budget line, the
\* skill-level line and at most one profile line naming at most two factors;
\* a generic line is there only as the sole entry
ExplanationsInFixedOrder ==
    RankedOne =>
        \A i \in 1..Len(ranked.value) :
            ExplanationsWellFormed(
                ranked.value[i].explanations,
                computeRelevanceScore(Original(ranked.value[i]),
                                      extractKeywords(call.query)))

\* a ranking in which one result carries all seven lines, its profile line
\* naming two factors, and another result carries some of them and no generic line
ExplanationsInFixedOrderWitness ==
    /\ RankedOne
    /\ \E i \in 1..Len(ranked.value) :
          /\ Len(ranked.value[i].explanations) = 7
          /\ Len(ranked.value[i].explanations[7].factors) = 2
    /\ \E i \in 1..Len(ranked.value) :
          /\ Len(ranked.value[i].explanations) \in 2..6
          /\ LineKinds(ranked.value[i]) \cap FallbackLines = {}


\* the first entries of a list, as slice(0, n) gives them
FirstOf(xs, n) == SubSeq(xs, 1, Min(n, Len(xs)))

\* app.js and the ranking engine score the results that pass the intent filter alike
SameScoredResults(results, profile, constraints, queryKeywords) ==
    clientScoredResultsOf(results, profile, constraints, queryKeywords)
        = scoredResultsOf(results, profile, constraints, queryKeywords)

\* C30: when no constraint is active, rankAndDisplayResults of app.js and
\* rankResults of the ranking engine give every candidate the same score and
\* the same explanations, the page shows the first three entries of the list
\* rankResults returns, and the one throws exactly when the other does
ClientAgreesWithServer ==
    NoConstraintActive(call.constraints) =>
        /\ call.profile \in Profiles =>
              SameScoredResults(filterByQueryIntent(call.results, call.query),
                                call.profile, call.constraints,
                                extractKeywords(call.query))
        /\ ranked.done /\ Displayed =>
              /\ ranked.threw <=> uncaught = "TypeError"
              /\ ~ranked.threw => resultsContainer.cards = FirstOf(ranked.value, 3)

\* without a constraint, rankResults returned more than three results and the
\* page shows three cards
ClientAgreesWithServerWitness ==
    /\ RankedOne /\ Displayed
    /\ NoConstraintActive(call.constraints)
    /\ Len(ranked.value) > 3
    /\ Len(resultsContainer.cards) = 3


\* no invocation of handleSearch waits at an await
AllSearchesHandled == \A s \in Searches : searches[s].pc = "idle"

\* the page shows the body of a response, not the loading or the error state
ShowsResponse == resultsContainer.state \in {"results", "empty"}

\* C25: when handleSearch is started while an earlier invocation still waits
\* for its response, then once every response is handled (each one a success)
\* the page shows what the invocation started last showed, and
\* lastSearchContext holds the query and the constraints of that invocation
LastStartedSearchWins ==
    /\ AllSearchesHandled /\ ShowsResponse
    /\ lastStarted.overlapped /\ lastStarted.handled /\ lastStarted.stored
    => /\ resultsContainer = lastStarted.shown
       /\ lastSearchContext.query = lastStarted.query
       /\ lastSearchContext.constraints = lastStarted.constraints

====
